---- MODULE Spec2Model ----
(***************************************************************************)
(* A model of the execution core of the rush shell:                        *)
(*   - the arithmetic expression evaluator (src/src/expr/mod.rs),          *)
(*   - word expansion (src/src/lang/word.rs),                              *)
(*   - the job manager (src/src/lang/exec.rs) on top of the subprocess     *)
(*     launcher (src/src/jobs/spawn.rs).                                   *)
(*                                                                         *)
(* Strings are sequences of atoms.  Decimal digits and the sign characters *)
(* are one-character atoms, so that number formatting and number parsing   *)
(* are computed character by character; every other atom is an opaque     *)
(* literal such as "true".  Numbers are the integer-valued doubles.        *)
(***************************************************************************)
EXTENDS Integers, Sequences, FiniteSets, TLC

VARIABLES
    \* ---- JobManager (lang::exec) ----
    next_jid,        \* JobManager.next_jid
    running_jobs,    \* JobManager.running_jobs: pid -> jid
    completed_jobs,  \* JobManager.completed_jobs: jid -> ExitStatus
    ctxs,            \* ctxs[1] is the caller's ExecutionContext; BraceGroup clones are pushed
    stack,           \* the activation records of run / await / spawn_procs_from_ast
    ret,             \* what the callee that returned last handed to its caller
    fds,             \* the shell's descriptor table: fd -> open file description
    npipes,          \* pipes created so far (names the next pipe)
    children,        \* the shell's unreaped children: pid -> exit code they report
    lastpid,         \* the pid the kernel handed out last
    ncalls,          \* public calls made so far
    \* ---- history (written, never read, by the program) ----
    call,            \* the public call in progress or last finished, and its return
    procs,           \* every child ever spawned, in spawn order
    issued,          \* the job ids add_job has handed out
    nwaits,          \* how often wait() was called
    condLog,         \* what each executed conditional pair decided
    callLog,         \* what each function call dispatched
    lastGroup,       \* the group / brace-group that returned last
    \* ---- expression evaluator harness ----
    evars,      \* the variable store handed to Expr::evaluate
    epre,       \* the store before the last evaluation
    eexpr,      \* the expression last evaluated
    eres,       \* what that evaluation returned
    nevals,     \* evaluations done so far
    \* ---- expression text harness ----
    psrc,       \* the text last handed to expr::parse / expr::eval
    ptree,      \* what the parser returned for it
    ppre,       \* the variable store before that call
    pvars,      \* the variable store
    pout,       \* what expr::eval returned
    nparses,    \* texts handled so far
    \* ---- process spawning harness ----
    penv,       \* the shell's own environment
    plan,       \* ProcessOptions.env: the extra (key, value) pairs, in call order
    child,      \* the forked child: its stage, its environment, what its program received
    \* ---- word harness ----
    wsrc,       \* the text handed to Word::parse
    wparts,     \* the parts Word::parse made of it
    wvars,      \* the variable store Word::compile is handed
    wout,       \* what Word::compile returned
    \* ---- variable store harness ----
    vstore,     \* a Variables store
    vlast,      \* the value written last for each name
    vop,        \* the operation called last, the store it found and what it returned
    \* ---- job id harness ----
    jstart,     \* the children the manager had spawned when the harness starts
    jlog,       \* the job ids add_job handed out since, in order
    jpanic,     \* add_job panicked on the overflow of next_jid
    \* ---- child setup harness ----
    kplan,      \* the ProcessOptions being built
    kid,        \* the forked child: its stage, its descriptor table, the steps it took, its exit
    kwait,      \* what the parent's wait() reported for the child
    \* ---- signal trap harness ----
    ttab,       \* GLOBAL_TRAPS: the array of actions
    tlast,      \* signal number -> the action last set for it
    tout,       \* the last call on the table and what it returned
    tpanic,     \* an index went out of bounds
    ntraps      \* calls made so far

jmVars == <<next_jid, running_jobs, completed_jobs, ctxs, stack, ret, fds, npipes,
            children, lastpid, ncalls>>

histVars == <<call, procs, issued, nwaits, condLog, callLog, lastGroup>>

exprVars == <<evars, epre, eexpr, eres, nevals>>

parseVars == <<psrc, ptree, ppre, pvars, pout, nparses>>

spawnVars == <<penv, plan, child>>

wordVars == <<wsrc, wparts, wvars, wout>>

storeVars == <<vstore, vlast, vop>>

jidVars == <<jstart, jlog, jpanic>>

kidVars == <<kplan, kid, kwait>>

trapVars == <<ttab, tlast, tout, tpanic, ntraps>>

otherVars == <<exprVars, parseVars, spawnVars, wordVars, storeVars, jidVars, kidVars, trapVars>>

\* what the actions of one harness leave alone
notExpr == <<jmVars, histVars, parseVars, spawnVars, wordVars, storeVars, jidVars, kidVars, trapVars>>

notParse == <<jmVars, histVars, exprVars, spawnVars, wordVars, storeVars, jidVars, kidVars, trapVars>>

notSpawn == <<jmVars, histVars, exprVars, parseVars, wordVars, storeVars, jidVars, kidVars, trapVars>>

notWord == <<jmVars, histVars, exprVars, parseVars, spawnVars, storeVars, jidVars, kidVars, trapVars>>

notStore == <<jmVars, histVars, exprVars, parseVars, spawnVars, wordVars, jidVars, kidVars, trapVars>>

notJid == <<exprVars, parseVars, spawnVars, wordVars, storeVars, kidVars, trapVars>>

notKid == <<jmVars, histVars, exprVars, parseVars, spawnVars, wordVars, storeVars, jidVars, trapVars>>

notTrap == <<jmVars, histVars, exprVars, parseVars, spawnVars, wordVars, storeVars, jidVars, kidVars>>

vars == <<jmVars, histVars, otherVars>>

(***************************************************************************)
(* Bounds                                                                  *)
(***************************************************************************)
MaxEvals == 2

MaxParses == 1

MaxPlanEnv == 2

MaxCalls == 2

MaxPid == 3

MaxJobs == 3

MaxFdOps == 2

MaxTrapCalls == 3

MaxFds == 7

(***************************************************************************)
(* Strings and numbers                                                     *)
(***************************************************************************)
DigitChars == <<"0", "1", "2", "3", "4", "5", "6", "7", "8", "9">>

IsDigit(c) == \E i \in 1..10 : DigitChars[i] = c

DigitVal(c) == (CHOOSE i \in 1..10 : DigitChars[i] = c) - 1

RECURSIVE NatToStr(_)
NatToStr(n) ==
    IF n < 10 THEN <<DigitChars[n + 1]>>
    ELSE NatToStr(n \div 10) \o <<DigitChars[(n % 10) + 1]>>

\* f64::to_string for an integer-valued double: no decimal point, '-' for negatives
to_string(n) == IF n < 0 THEN <<"-">> \o NatToStr(0 - n) ELSE NatToStr(n)

\* take_while1!(digit): the length of the longest prefix of s made of digits
RECURSIVE DigitPrefixLen(_)
DigitPrefixLen(s) ==
    IF s = <<>> \/ ~IsDigit(Head(s)) THEN 0 ELSE 1 + DigitPrefixLen(Tail(s))

RECURSIVE DigitsVal(_, _)
DigitsVal(s, acc) ==
    IF s = <<>> THEN acc ELSE DigitsVal(Tail(s), acc * 10 + DigitVal(Head(s)))

\* lexer::float on a string: optional sign, then a run of decimal digits; whatever
\* follows the digits is left unread.  [ok |-> FALSE] is nom's Err.
float(s) ==
    LET signed == s # <<>> /\ Head(s) \in {"+", "-"}
        body   == IF signed THEN Tail(s) ELSE s
        k      == DigitPrefixLen(body)
        mag    == DigitsVal(SubSeq(body, 1, k), 0)
    IN  IF k = 0 THEN [ok |-> FALSE, val |-> 0]
        ELSE [ok |-> TRUE, val |-> IF signed /\ Head(s) = "-" THEN 0 - mag ELSE mag]

(***************************************************************************)
(* Variable store (env::Variables)                                         *)
(***************************************************************************)
define(vs, k, v) == [x \in (DOMAIN vs) \cup {k} |-> IF x = k THEN v ELSE vs[x]]

value(vs, k) == IF k \in DOMAIN vs THEN vs[k] ELSE <<>>

exists(vs, k) == k \in DOMAIN vs

(***************************************************************************)
(* Entries of the variable store (Variables::entry and impl Entry)         *)
(*                                                                         *)
(* An operation on the entry of name k yields the store after it and what  *)
(* it returns.                                                             *)
(***************************************************************************)
Stored(vs, out) == [vars |-> vs, ret |-> out]

\* OccupiedEntry::is_null
is_null(vs, k) == Len(vs[k]) = 0

\* Entry::insert
insert(vs, k, v) == Stored(define(vs, k, v), v)

\* Entry::or_insert
or_insert(vs, k, d) ==
    IF exists(vs, k) THEN Stored(vs, vs[k]) ELSE Stored(define(vs, k, d), d)

\* or_insert_null that leaves an empty value in place
OrInsertNullAbsentOnly(vs, k, d) ==
    IF exists(vs, k) THEN Stored(vs, vs[k]) ELSE Stored(define(vs, k, d), d)

\* Entry::or_insert_null
or_insert_null(vs, k, d) ==
    IF exists(vs, k)
    THEN IF is_null(vs, k) THEN Stored(define(vs, k, d), d) ELSE Stored(vs, vs[k])
    ELSE Stored(define(vs, k, d), d)

\* and_modify that creates the entry it does not find
AndModifyCreates(vs, k, f) == Stored(define(vs, k, f[value(vs, k)]), <<>>)

\* Entry::and_modify: f is applied to the value of an occupied entry
and_modify(vs, k, f) ==
    IF exists(vs, k) THEN Stored(define(vs, k, f[vs[k]]), <<>>) ELSE Stored(vs, <<>>)

\* Entry::default
default(vs, k, d) == IF exists(vs, k) THEN Stored(vs, vs[k]) ELSE Stored(vs, d)

\* Entry::default_null
default_null(vs, k, d) ==
    IF exists(vs, k)
    THEN IF is_null(vs, k) THEN Stored(vs, d) ELSE Stored(vs, vs[k])
    ELSE Stored(vs, d)

\* the number a variable holds: .map(|(_, y)| y).unwrap_or(0.0)
VarNumber(vs, k) == LET r == float(value(vs, k)) IN IF r.ok THEN r.val ELSE 0

(***************************************************************************)
(* Expression trees (expr::types::Expr)                                    *)
(***************************************************************************)
Number(n)          == [t |-> "Number", n |-> n]
Variable(name)     == [t |-> "Variable", name |-> name]
Prefix(op, r)      == [t |-> "Prefix", operator |-> op, right |-> r]
Suffix(l, op)      == [t |-> "Suffix", operator |-> op, left |-> l]
Infix(l, op, r)    == [t |-> "Infix", left |-> l, operator |-> op, right |-> r]
Condition(c, a, b) == [t |-> "Condition", condition |-> c, on_true |-> a, on_false |-> b]

NoExpr == [t |-> "None"]

\* what a reached unreachable!() leaves behind
Panic == [t |-> "Panic"]

as_boolean(e) == IF e.t = "Number" THEN e.n # 0 ELSE FALSE

BoolNum(b) == IF b THEN 1 ELSE 0

\* the closures |v| ... handed to modify_variable / assign_variable / modify_number
ApplyOp(op, v, right) ==
    CASE op = "Increment"          -> v + 1
      [] op = "Decrement"          -> v - 1
      [] op = "Add"                -> v + right
      [] op = "Subtract"           -> v - right
      [] op = "Multiply"           -> v * right
      [] op = "LessThan"           -> BoolNum(v < right)
      [] op = "LessThanOrEqual"    -> BoolNum(v <= right)
      [] op = "GreaterThan"        -> BoolNum(v > right)
      [] op = "GreaterThanOrEqual" -> BoolNum(v >= right)
      [] op = "Equal"              -> BoolNum(v = right)
      [] op = "NotEqual"           -> BoolNum(v # right)
      [] op = "Assign"             -> right
      [] op = "AssignAdd"          -> v + right
      [] op = "AssignSubtract"     -> v - right
      [] op = "AssignMultiply"     -> v * right
      [] op = "Negate"             -> (0 - v) - 1
      [] op = "Negative"           -> 0 - v

NumberOps == {"Add", "Subtract", "Multiply", "LessThan", "LessThanOrEqual",
              "GreaterThan", "GreaterThanOrEqual", "Equal", "NotEqual"}

AssignOps == {"Assign", "AssignAdd", "AssignSubtract", "AssignMultiply"}

R(e, vs) == [e |-> e, vars |-> vs]

RECURSIVE evaluate(_, _)

\* Expr::modify_variable
modify_variable(self, vs, op) ==
    IF self.t = "Variable"
    THEN LET new_value == ApplyOp(op, VarNumber(vs, self.name), 0)
         IN  R(Number(new_value), define(vs, self.name, to_string(new_value)))
    ELSE LET me == evaluate(self, vs)
         IN  IF me.e.t = "Variable"
             THEN LET new_value == ApplyOp(op, VarNumber(me.vars, me.e.name), 0)
                  IN  R(Number(new_value),
                        define(me.vars, me.e.name, to_string(new_value)))
             ELSE me

\* assign_variable handing back the right operand when self is no variable
AssignVariableYieldsRight(self, vs, op, right) ==
    IF self.t = "Variable"
    THEN LET new_value == ApplyOp(op, VarNumber(vs, self.name), right)
         IN  R(Number(new_value), define(vs, self.name, to_string(new_value)))
    ELSE R(Number(right), vs)

\* Expr::assign_variable: two passes of "a variable? write it : evaluate"
assign_variable(self, vs, op, right) ==
    IF self.t = "Variable"
    THEN LET new_value == ApplyOp(op, VarNumber(vs, self.name), right)
         IN  R(Number(new_value), define(vs, self.name, to_string(new_value)))
    ELSE LET one == evaluate(self, vs)
         IN  IF one.e.t = "Variable"
             THEN LET new_value == ApplyOp(op, VarNumber(one.vars, one.e.name), right)
                  IN  R(Number(new_value),
                        define(one.vars, one.e.name, to_string(new_value)))
             ELSE IF one.e.t = "Panic" THEN one
             ELSE evaluate(one.e, one.vars)

\* Expr::modify_number
modify_number(self, vs, op, right) ==
    LET me == evaluate(self, vs)
    IN  IF me.e.t = "Number" THEN R(Number(ApplyOp(op, me.e.n, right)), me.vars) ELSE me

EvalPrefix(pre, vs) ==
    CASE pre.operator = "Increment" -> modify_variable(pre.right, vs, "Increment")
      [] pre.operator = "Decrement" -> modify_variable(pre.right, vs, "Decrement")
      [] pre.operator = "Not"       -> R(Number(BoolNum(~as_boolean(pre.right))), vs)
      [] pre.operator = "Negate"    -> modify_number(pre.right, vs, "Negate", 0)
      [] pre.operator = "Add"       -> evaluate(pre.right, vs)
      [] pre.operator = "Subtract"  -> modify_number(pre.right, vs, "Negative", 0)
      [] OTHER                      -> R(Panic, vs)

\* EvalSuffix with the decrement adding one
EvalSuffixAddsOne(suf, vs) ==
    LET copy == evaluate(suf.left, vs)
    IN  IF copy.e.t = "Panic" THEN copy
        ELSE IF suf.operator \in {"Increment", "Decrement"}
        THEN LET m == modify_variable(suf.left, copy.vars, "Increment")
             IN  IF m.e.t = "Panic" THEN m ELSE R(copy.e, m.vars)
        ELSE R(Panic, copy.vars)

EvalSuffix(suf, vs) ==
    LET copy == evaluate(suf.left, vs)
    IN  IF copy.e.t = "Panic" THEN copy
        ELSE IF suf.operator \in {"Increment", "Decrement"}
        THEN LET m == modify_variable(suf.left, copy.vars, suf.operator)
             IN  IF m.e.t = "Panic" THEN m ELSE R(copy.e, m.vars)
        ELSE R(Panic, copy.vars)

\* Operator::And / Operator::Or, entered after the right side was reduced once
EvalAnd(inf, vs) ==
    LET l == evaluate(inf.left, vs)
    IN  IF l.e.t = "Panic" THEN l
        ELSE IF as_boolean(l.e)
        THEN LET r == evaluate(inf.right, l.vars)
             IN  IF r.e.t = "Panic" THEN r ELSE R(Number(BoolNum(as_boolean(r.e))), r.vars)
        ELSE R(Number(0), l.vars)

EvalOr(inf, vs) ==
    LET l == evaluate(inf.left, vs)
    IN  IF l.e.t = "Panic" THEN l
        ELSE IF as_boolean(l.e) THEN R(Number(1), l.vars)
        ELSE LET r == evaluate(inf.right, l.vars)
             IN  IF r.e.t = "Panic" THEN r ELSE R(Number(BoolNum(as_boolean(r.e))), r.vars)

\* the value every infix operator starts from: inf.right.clone().evaluate(vars)
InfixRight(inf, vs) == evaluate(inf.right, vs)

EvalInfix(inf, vs) ==
    LET rr    == InfixRight(inf, vs)
        right == rr.e.n
    IN  IF rr.e.t = "Panic" THEN rr
        ELSE CASE inf.operator \in NumberOps -> modify_number(inf.left, rr.vars, inf.operator, right)
               [] inf.operator = "And"       -> EvalAnd(inf, rr.vars)
               [] inf.operator = "Or"        -> EvalOr(inf, rr.vars)
               [] inf.operator \in AssignOps -> assign_variable(inf.left, rr.vars, inf.operator, right)
               [] inf.operator \in {"Increment", "Decrement", "Negate", "Not"} -> R(Panic, rr.vars)

EvalCondition(cond, vs) ==
    LET c == evaluate(cond.condition, vs)
    IN  IF c.e.t = "Panic" THEN c
        ELSE IF as_boolean(c.e) THEN evaluate(cond.on_true, c.vars)
        ELSE evaluate(cond.on_false, c.vars)

\* Expr::evaluate
evaluate(self, vs) ==
    CASE self.t = "Number"    -> R(self, vs)
      [] self.t = "Variable"  -> R(Number(VarNumber(vs, self.name)), vs)
      [] self.t = "Condition" -> EvalCondition(self, vs)
      [] self.t = "Prefix"    -> EvalPrefix(self, vs)
      [] self.t = "Suffix"    -> EvalSuffix(self, vs)
      [] self.t = "Infix"     -> EvalInfix(self, vs)
      [] self.t = "Panic"     -> R(Panic, vs)

(***************************************************************************)
(* Tokens of an expression (expr::lexer)                                   *)
(*                                                                         *)
(* A text is a sequence of characters.  The texts read here are written    *)
(* with decimal digits, the letters of Letters, blanks, operators and      *)
(* punctuation: they hold no '.', no exponent and no radix prefix, so      *)
(* lexer::decimal never matches and lexer::integer reads a run of decimal  *)
(* digits.  A variable's name is the sequence of its characters.           *)
(***************************************************************************)
Letters == {"a", "c", "n", "_"}

\* take_while1!(alphanumeric or '_'): the length of the longest such prefix
RECURSIVE NamePrefixLen(_)
NamePrefixLen(s) ==
    IF s = <<>> \/ ~(IsDigit(Head(s)) \/ Head(s) \in Letters) THEN 0
    ELSE 1 + NamePrefixLen(Tail(s))

\* ws!: the blanks in front of a token and behind it are dropped
RECURSIVE SkipSpace(_)
SkipSpace(s) == IF s # <<>> /\ Head(s) = " " THEN SkipSpace(Tail(s)) ELSE s

StartsWith(s, p) == Len(s) >= Len(p) /\ SubSeq(s, 1, Len(p)) = p

Tag(text, op) == [tag |-> text, op |-> op]

\* lexer::operator: the alternatives in the order alt! tries them
OperatorTags ==
    << Tag(<<">", ">", "=">>, "AssignRightShift"), Tag(<<"<", "<", "=">>, "AssignLeftShift"),
       Tag(<<"<", "<">>, "LeftShift"),        Tag(<<">", ">">>, "RightShift"),
       Tag(<<"=", "=">>, "Equal"),            Tag(<<"!", "=">>, "NotEqual"),
       Tag(<<"&", "&">>, "And"),              Tag(<<"|", "|">>, "Or"),
       Tag(<<"+", "+">>, "Increment"),        Tag(<<"-", "-">>, "Decrement"),
       Tag(<<"+", "=">>, "AssignAdd"),        Tag(<<"-", "=">>, "AssignSubtract"),
       Tag(<<"*", "=">>, "AssignMultiply"),   Tag(<<"/", "=">>, "AssignDivide"),
       Tag(<<"%", "=">>, "AssignModulo"),     Tag(<<"&", "=">>, "AssignBitAnd"),
       Tag(<<"|", "=">>, "AssignBitOr"),      Tag(<<"^", "=">>, "AssignBitExclusiveOr"),
       Tag(<<"<", "=">>, "LessThanOrEqual"),  Tag(<<">", "=">>, "GreaterThanOrEqual"),
       Tag(<<"=">>, "Assign"),                Tag(<<"<">>, "LessThan"),
       Tag(<<">">>, "GreaterThan"),           Tag(<<"^">>, "BitExclusiveOr"),
       Tag(<<"|">>, "BitOr"),                 Tag(<<"&">>, "BitAnd"),
       Tag(<<"+">>, "Add"),                   Tag(<<"-">>, "Subtract"),
       Tag(<<"*">>, "Multiply"),              Tag(<<"/">>, "Divide"),
       Tag(<<"%">>, "Modulo"),                Tag(<<"~">>, "Negate"),
       Tag(<<"!">>, "Not") >>

\* the first alternative of lexer::operator that matches the front of s
operator(s) ==
    LET hits == {i \in DOMAIN OperatorTags : StartsWith(s, OperatorTags[i].tag)}
    IN  IF hits = {} THEN [ok |-> FALSE]
        ELSE [ok |-> TRUE, tag |-> OperatorTags[CHOOSE h \in hits : \A g \in hits : h <= g]]

\* the single-character tokens of TokenStream::next
Punctuation == [c \in {",", "?", ":", "(", ")"} |->
                   CASE c = "," -> "Comma"
                     [] c = "?" -> "QuestionMark"
                     [] c = ":" -> "Colon"
                     [] c = "(" -> "LeftParen"
                     [] c = ")" -> "RightParen"]

Token(k, v) == [k |-> k, v |-> v]

NoToken == [k |-> "None"]

Lexed(tok, rest) == [st |-> "Some", tok |-> tok, rest |-> SkipSpace(rest)]

\* alt!(decimal | integer | variable | operator | ',' | '?' | ':' | '(' | ')') on
\* a text whose leading blanks were dropped
TokenAt(t) ==
    IF DigitPrefixLen(t) > 0
    THEN Lexed(Token("Number", DigitsVal(SubSeq(t, 1, DigitPrefixLen(t)), 0)),
               SubSeq(t, DigitPrefixLen(t) + 1, Len(t)))
    ELSE IF NamePrefixLen(t) > 0
    THEN Lexed(Token("Variable", SubSeq(t, 1, NamePrefixLen(t))),
               SubSeq(t, NamePrefixLen(t) + 1, Len(t)))
    ELSE IF operator(t).ok
    THEN Lexed(Token("Operator", operator(t).tag.op),
               SubSeq(t, Len(operator(t).tag.tag) + 1, Len(t)))
    ELSE IF t # <<>> /\ Head(t) \in DOMAIN Punctuation
    THEN Lexed(Token(Punctuation[Head(t)], Head(t)), Tail(t))
    ELSE [st |-> "Err"]

\* TokenStream::next: a token, the end of the text, or InvalidCharacter
TokenStreamNext(sliced) ==
    IF sliced = <<>> THEN [st |-> "None"] ELSE TokenAt(SkipSpace(sliced))

(***************************************************************************)
(* Precedence (expr::types)                                                *)
(***************************************************************************)
\* enum Precedence in declaration order: Ord compares the discriminants
PrecedenceOrder ==
    << "Minimum", "Prefix", "Suffix", "Product", "Sum", "BitShift", "Relational",
       "Equality", "BitAnd", "BitOr", "BitExclusiveOr", "LogicalAnd", "LogicalOr",
       "TernaryConditional", "Assignment", "Parentheses", "Separator" >>

Discriminant(p) == CHOOSE i \in DOMAIN PrecedenceOrder : PrecedenceOrder[i] = p

AssignmentOperators ==
    {"Assign", "AssignAdd", "AssignBitAnd", "AssignBitExclusiveOr", "AssignBitOr",
     "AssignDivide", "AssignLeftShift", "AssignModulo", "AssignMultiply",
     "AssignRightShift", "AssignSubtract"}

from_operator(op) ==
    CASE op \in {"Multiply", "Divide", "Modulo"}     -> "Product"
      [] op \in {"Add", "Subtract"}                  -> "Sum"
      [] op \in {"LeftShift", "RightShift"}          -> "BitShift"
      [] op \in {"Equal", "NotEqual"}                -> "Equality"
      [] op = "BitAnd"                               -> "BitAnd"
      [] op = "BitOr"                                -> "BitOr"
      [] op = "BitExclusiveOr"                       -> "BitExclusiveOr"
      [] op = "And"                                  -> "LogicalAnd"
      [] op = "Or"                                   -> "LogicalOr"
      [] op \in {"LessThan", "LessThanOrEqual", "GreaterThan", "GreaterThanOrEqual"}
                                                     -> "Relational"
      [] op \in AssignmentOperators                  -> "Assignment"
      [] op \in {"Increment", "Decrement", "Negate", "Not"} -> "Prefix"

\* Precedence::from_token; "None" for a token that is no infix position
from_token(t) ==
    CASE t.k \in {"Number", "Variable"}       -> "None"
      [] t.k = "Operator"                     -> from_operator(t.v)
      [] t.k = "Comma"                        -> "Separator"
      [] t.k \in {"Colon", "QuestionMark"}    -> "TernaryConditional"
      [] t.k \in {"LeftParen", "RightParen"}  -> "Parentheses"

is_prefix(op) == op \in {"Not", "Negate", "Increment", "Decrement", "Add", "Subtract"}

is_suffix(op) == op \in {"Increment", "Decrement"}

(***************************************************************************)
(* The expression parser (expr::parser)                                    *)
(*                                                                         *)
(* A parser is its one-token lookahead and the text not yet read.  A       *)
(* parse step yields Some(tree), None or an error, with the parser after   *)
(* it.                                                                     *)
(***************************************************************************)
Parser(peek, sliced) == [peek |-> peek, sliced |-> sliced]

ParsedSome(e, p) == [st |-> "Some", e |-> e, p |-> p]

ParsedNone(p) == [st |-> "None", e |-> NoExpr, p |-> p]

\* expr::eval was not called
NotEvaluated == [st |-> "None"]

ParseError(kind) == [st |-> "Err", e |-> NoExpr, kind |-> kind]

\* the parser once the lexer answered n
Advanced(p, n) ==
    IF n.st = "Err" THEN ParseError("InvalidCharacter")
    ELSE [st |-> "Ok", tok |-> p.peek,
          p |-> IF n.st = "Some" THEN Parser(n.tok, n.rest) ELSE Parser(NoToken, p.sliced)]

\* Parser::next_token: hand out the lookahead and read the next token into it
next_token(p) == Advanced(p, TokenStreamNext(p.sliced))

RECURSIVE parse_precedence(_, _)

\* Parser::must_parse_precedence
MustBeSome(r) == IF r.st = "None" THEN ParseError("UnexpectedEof") ELSE r

must_parse_precedence(p, precedence) == MustBeSome(parse_precedence(p, precedence))

RECURSIVE InfixLoop(_, _, _)

\* left = Expr::Infix { left, operator, right }, then expect_infix! and the loop test
InfixBuilt(left, op, r, precedence) ==
    IF r.st = "Err" THEN r ELSE InfixLoop(Infix(left, op, r.e), r.p, precedence)

\* left = Expr::Condition { condition: left, on_true, on_false }
ConditionBuilt(left, on_true, f, precedence) ==
    IF f.st = "Err" THEN f
    ELSE InfixLoop(Condition(left, on_true, f.e), f.p, precedence)

\* the token after on_true must be the colon
TernaryElse(left, on_true, c, tp, precedence) ==
    IF c.st = "Err" THEN c
    ELSE IF c.tok.k # "Colon" THEN ParseError("ExpectingTernaryElse")
    ELSE ConditionBuilt(left, on_true, must_parse_precedence(c.p, tp), precedence)

TernaryThen(left, t, tp, precedence) ==
    IF t.st = "Err" THEN t
    ELSE TernaryElse(left, t.e, next_token(t.p), tp, precedence)

\* the body of `while token_precedence < precedence`, nt being self.next_token()
InfixBody(left, nt, tp, precedence) ==
    IF nt.st = "Err" THEN nt
    ELSE CASE nt.tok.k = "Operator" ->
                InfixBuilt(left, nt.tok.v, must_parse_precedence(nt.p, tp), precedence)
           [] nt.tok.k = "QuestionMark" ->
                TernaryThen(left, must_parse_precedence(nt.p, tp), tp, precedence)
           [] nt.tok.k \in {"Comma", "Colon", "RightParen"} -> ParsedSome(left, nt.p)
           [] nt.tok.k = "LeftParen" -> ParseError("InvalidInfixOperator")

\* expect_infix!, then the loop while the lookahead binds tighter than precedence
InfixLoop(left, p, precedence) ==
    IF p.peek = NoToken THEN ParsedSome(left, p)
    ELSE IF from_token(p.peek) = "None" THEN ParseError("InvalidInfixOperator")
    ELSE IF Discriminant(from_token(p.peek)) < Discriminant(precedence)
    THEN InfixBody(left, next_token(p), from_token(p.peek), precedence)
    ELSE ParsedSome(left, p)

\* a suffix operator was taken: self.next_token()?, then the infix part
SuffixTaken(left, nt, precedence) ==
    IF nt.st = "Err" THEN nt ELSE InfixLoop(left, nt.p, precedence)

\* what follows the left operand: a suffix operator, a closing parenthesis, the end
AfterLeft(left, p, precedence) ==
    CASE p.peek.k = "Operator" ->
            IF is_suffix(p.peek.v)
            THEN SuffixTaken(Suffix(left, p.peek.v), next_token(p), precedence)
            ELSE InfixLoop(left, p, precedence)
      [] p.peek.k \in {"RightParen", "None"} -> ParsedSome(left, p)
      [] OTHER -> InfixLoop(left, p, precedence)

PrefixBuilt(op, r) == IF r.st = "Err" THEN r ELSE ParsedSome(Prefix(op, r.e), r.p)

\* the token after a parenthesised expression must close it
ParenClosed(e, c) ==
    IF c.st = "Err" THEN c
    ELSE IF c.tok.k = "RightParen" THEN ParsedSome(e, c.p)
    ELSE ParseError("ExpectingRightParentheses")

ParenInner(r) == IF r.st = "Err" THEN r ELSE ParenClosed(r.e, next_token(r.p))

\* the left operand that starts with token v
LeftOperand(v, p) ==
    CASE v.k = "Number"    -> ParsedSome(Number(v.v), p)
      [] v.k = "Variable"  -> ParsedSome(Variable(v.v), p)
      [] v.k = "Operator"  ->
            IF ~is_prefix(v.v) THEN ParseError("InvalidPrefixOperator")
            ELSE PrefixBuilt(v.v, must_parse_precedence(p, "Prefix"))
      [] v.k = "LeftParen" -> ParenInner(must_parse_precedence(p, "Parentheses"))
      [] OTHER             -> ParseError("InvalidToken")

LeftParsed(l, precedence) ==
    IF l.st = "Err" THEN l ELSE AfterLeft(l.e, l.p, precedence)

FirstToken(nt, precedence) ==
    IF nt.st = "Err" THEN nt
    ELSE IF nt.tok = NoToken THEN ParsedNone(nt.p)
    ELSE LeftParsed(LeftOperand(nt.tok, nt.p), precedence)

\* Parser::parse_precedence
parse_precedence(p, precedence) == FirstToken(next_token(p), precedence)

ParseStarted(nt) ==
    IF nt.st = "Err" THEN nt ELSE must_parse_precedence(nt.p, "Separator")

\* expr::parse: Parser::from(s).parse()
parse(s) == ParseStarted(next_token(Parser(NoToken, s)))

(***************************************************************************)
(* Display for Operator and Expr (expr::types)                             *)
(***************************************************************************)
\* Display for Operator spells each operator as the lexer reads it
OperatorFmt(op) ==
    OperatorTags[CHOOSE i \in DOMAIN OperatorTags : OperatorTags[i].op = op].tag

\* Display for Expr: no parentheses are written
RECURSIVE fmt(_)
fmt(e) ==
    CASE e.t = "Condition" -> fmt(e.condition) \o <<" ", "?", " ">> \o fmt(e.on_true)
                                \o <<" ", ":", " ">> \o fmt(e.on_false)
      [] e.t = "Number"    -> to_string(e.n)
      [] e.t = "Variable"  -> e.name
      [] e.t = "Prefix"    -> OperatorFmt(e.operator) \o fmt(e.right)
      [] e.t = "Suffix"    -> fmt(e.left) \o OperatorFmt(e.operator)
      [] e.t = "Infix"     -> fmt(e.left) \o <<" ">> \o OperatorFmt(e.operator)
                                \o <<" ">> \o fmt(e.right)

(***************************************************************************)
(* Words (lang::word)                                                      *)
(*                                                                         *)
(* A word is a sequence of parts.  An Expr part carries the expression     *)
(* tree that expr::parse yields for the text of its inner word.            *)
(***************************************************************************)
Slice(s)     == [k |-> "Slice", s |-> s]
VarPart(n)   == [k |-> "Variable", name |-> n]
ExprPart(e)  == [k |-> "Expr", e |-> e]

(***************************************************************************)
(* The word parser (lang::word)                                            *)
(*                                                                         *)
(* The texts read here hold no parenthesis, so the "((" alternative of     *)
(* sigiled_expression never matches.  The backquote, LF, TAB and the       *)
(* replacement character U+FFFD are written as atoms.                      *)
(***************************************************************************)
Backslash == "\\"

DoubleQuote == "\""

SingleQuote == "'"

Backquote == "<BACKQUOTE>"

LF == "<LF>"

TAB == "<TAB>"

ReplacementCharacter == "<U+FFFD>"

Escape(c) == [k |-> "Escape", c |-> c]

Quoted(parts) == [k |-> "Quoted", parts |-> parts]

\* a parser's answer: a token and the text behind it, or no match
Matched(tok, rest) == [ok |-> TRUE, tok |-> tok, rest |-> rest]

NoMatch == [ok |-> FALSE]

\* alt!: the first alternative that matches
OrElse(a, b) == IF a.ok THEN a ELSE b

\* preceded!(char!('\\'), alt!(char!(..) | ..)) => Token::Escape(c)
EscapeOf(s, allowed) ==
    IF Len(s) >= 2 /\ s[1] = Backslash /\ s[2] \in allowed
    THEN Matched(Escape(s[2]), SubSeq(s, 3, Len(s)))
    ELSE NoMatch

UnquotedEscapes ==
    {DoubleQuote, Backslash, "|", "n", LF, SingleQuote, "t", "$", Backquote, "&", "{", "}"}

DoubleQuotedEscapes == {DoubleQuote, Backslash, "n", "t", "$", Backquote}

SingleQuotedEscapes == {SingleQuote, Backslash}

\* the letters a variable's name is made of
WordLetters == {"a", "n", "t", "_"}

RECURSIVE LetterPrefixLen(_)
LetterPrefixLen(s) ==
    IF s = <<>> \/ Head(s) \notin WordLetters THEN 0 ELSE 1 + LetterPrefixLen(Tail(s))

\* sigiled_expression: take_while!(letter) => Token::Variable, the name may be empty
sigiled_expression(s) ==
    Matched(VarPart(SubSeq(s, 1, LetterPrefixLen(s))),
            SubSeq(s, LetterPrefixLen(s) + 1, Len(s)))

\* preceded!(char!('$'), sigiled_expression)
Sigiled(s) == IF s # <<>> /\ Head(s) = "$" THEN sigiled_expression(Tail(s)) ELSE NoMatch

\* the length of the longest prefix of s that holds none of stops
RECURSIVE FreePrefixLen(_, _)
FreePrefixLen(s, stops) ==
    IF s = <<>> \/ Head(s) \in stops THEN 0 ELSE 1 + FreePrefixLen(Tail(s), stops)

\* take_until_either1!: at least one character, and one of stops must follow
take_until_either1(s, stops) ==
    IF FreePrefixLen(s, stops) > 0 /\ FreePrefixLen(s, stops) < Len(s)
    THEN Matched(Slice(SubSeq(s, 1, FreePrefixLen(s, stops))),
                 SubSeq(s, FreePrefixLen(s, stops) + 1, Len(s)))
    ELSE NoMatch

\* take_while1!: the characters that end an unquoted slice
UnquotedStops ==
    {"&", DoubleQuote, "{", "}", SingleQuote, "|", ";", LF, Backslash, "$", " ", TAB}

UnquotedSlice(s) ==
    IF FreePrefixLen(s, UnquotedStops) > 0
    THEN Matched(Slice(SubSeq(s, 1, FreePrefixLen(s, UnquotedStops))),
                 SubSeq(s, FreePrefixLen(s, UnquotedStops) + 1, Len(s)))
    ELSE NoMatch

double_quoted_token(s) ==
    OrElse(EscapeOf(s, DoubleQuotedEscapes),
           OrElse(Sigiled(s), take_until_either1(s, {Backslash, "$", DoubleQuote})))

single_quoted_token(s) ==
    OrElse(EscapeOf(s, SingleQuotedEscapes), take_until_either1(s, {SingleQuote}))

\* many0!: the tokens matched one after the other, and the text left
Many(parts, rest) == [parts |-> parts, rest |-> rest]

Cons(tok, m) == Many(<<tok>> \o m.parts, m.rest)

RECURSIVE DoubleQuotedMany(_)
DoubleQuotedAfter(t, s) ==
    IF t.ok THEN Cons(t.tok, DoubleQuotedMany(t.rest)) ELSE Many(<<>>, s)

DoubleQuotedMany(s) == DoubleQuotedAfter(double_quoted_token(s), s)

RECURSIVE SingleQuotedMany(_)
SingleQuotedAfter(t, s) ==
    IF t.ok THEN Cons(t.tok, SingleQuotedMany(t.rest)) ELSE Many(<<>>, s)

SingleQuotedMany(s) == SingleQuotedAfter(single_quoted_token(s), s)

\* delimited!(char!(q), many0!(..), char!(q)) => Token::Quoted
Delimited(q, m) ==
    IF m.rest # <<>> /\ Head(m.rest) = q THEN Matched(Quoted(m.parts), Tail(m.rest))
    ELSE NoMatch

DoubleQuoted(s) ==
    IF s # <<>> /\ Head(s) = DoubleQuote THEN Delimited(DoubleQuote, DoubleQuotedMany(Tail(s)))
    ELSE NoMatch

SingleQuoted(s) ==
    IF s # <<>> /\ Head(s) = SingleQuote THEN Delimited(SingleQuote, SingleQuotedMany(Tail(s)))
    ELSE NoMatch

unquoted_token(s) ==
    OrElse(EscapeOf(s, UnquotedEscapes),
           OrElse(Sigiled(s),
                  OrElse(DoubleQuoted(s), OrElse(SingleQuoted(s), UnquotedSlice(s)))))

\* lang::word::word: many0!(alt!(unquoted_token | '..' | ".."))
RECURSIVE word(_)
WordAfter(t, s) == IF t.ok THEN Cons(t.tok, word(t.rest)) ELSE Many(<<>>, s)

word(s) == WordAfter(OrElse(unquoted_token(s), OrElse(SingleQuoted(s), DoubleQuoted(s))), s)

\* Word::parse: the parts matched; the text left over is dropped
WordParse(s) == word(s).parts

\* the character Word::compile pushes for Token::Escape(c)
EscapeChar(c) ==
    CASE c = "n" -> LF
      [] c = "t" -> TAB
      [] c \in {DoubleQuote, SingleQuote, " ", "$", "|", LF, Backquote} -> c
      [] OTHER -> ReplacementCharacter

\* expr::eval: evaluate, then render the number
eval(e, vs) == LET r == evaluate(e, vs) IN [s |-> to_string(r.e.n), vars |-> r.vars]

RECURSIVE compile(_, _)

\* one part of a word rendered against the store (word.rs:158-193)
CompilePart(x, vs) ==
    CASE x.k = "Slice"    -> [s |-> x.s, vars |-> vs]
      [] x.k = "Variable" -> [s |-> value(vs, x.name), vars |-> vs]
      [] x.k = "Expr"     -> eval(x.e, vs)
      [] x.k = "Escape"   -> [s |-> <<EscapeChar(x.c)>>, vars |-> vs]
      [] x.k = "Quoted"   -> compile(x.parts, vs)

\* the text so far, followed by what the remaining parts render to
Joined(s, rest) == [s |-> s \o rest.s, vars |-> rest.vars]

\* Word::compile: parts are rendered left to right against the same store
CompileAfter(one, parts) == Joined(one.s, compile(parts, one.vars))

compile(parts, vs) ==
    IF parts = <<>> THEN [s |-> <<>>, vars |-> vs]
    ELSE CompileAfter(CompilePart(Head(parts), vs), Tail(parts))

\* the arguments after argv[0], compiled in order (exec.rs:165-170)
Pushed(arg, rest) == [args |-> <<arg>> \o rest.args, vars |-> rest.vars]

RECURSIVE CompileArgs(_, _)
CompileArgsAfter(one, words) == Pushed(one.s, CompileArgs(words, one.vars))

CompileArgs(words, vs) ==
    IF words = <<>> THEN [args |-> <<>>, vars |-> vs]
    ELSE CompileArgsAfter(compile(Head(words), vs), Tail(words))

(***************************************************************************)
(* Command trees (lang::ast::Command)                                      *)
(***************************************************************************)
SimpleCommand(args)       == [type |-> "SimpleCommand", arguments |-> args]
Pipeline(from, to)        == [type |-> "Pipeline", from |-> from, to |-> to]
ConditionalPair(l, op, r) == [type |-> "ConditionalPair", left |-> l, operator |-> op, right |-> r]
Group(cmds)               == [type |-> "Group", commands |-> cmds]
BraceGroup(cmds)          == [type |-> "BraceGroup", commands |-> cmds]
Function(name, body)      == [type |-> "Function", name |-> name, body |-> body]
Comment                   == [type |-> "Comment"]

(***************************************************************************)
(* The file system and the programs on it                                  *)
(***************************************************************************)
\* (directory, name) of the executables that exist
Files == {<<"/bin", "true">>, <<"/bin", "false">>, <<"/bin", "f">>}

\* env::split_paths: the directories of a PATH value, ":" being its own atom
RECURSIVE split_paths(_, _)
split_paths(s, cur) ==
    IF s = <<>> THEN <<cur>>
    ELSE IF Head(s) = ":" THEN <<cur>> \o split_paths(Tail(s), <<>>)
    ELSE split_paths(Tail(s), cur \o <<Head(s)>>)

\* ExecutionContext::find_executable: the first PATH directory holding prog
find_executable(vs, prog) ==
    LET dirs == split_paths(value(vs, "PATH"), <<>>)
        hits == {i \in 1..Len(dirs) : Len(dirs[i]) = 1 /\ Len(prog) = 1
                                        /\ <<dirs[i][1], prog[1]>> \in Files}
    IN  IF hits = {} THEN [ok |-> FALSE, path |-> <<>>]
        ELSE LET i == CHOOSE h \in hits : \A g \in hits : h <= g
             IN  [ok |-> TRUE, path |-> dirs[i] \o <<"/">> \o prog]

starts_with_dot_slash(s) == s # <<>> /\ Head(s) = "./"

\* what the program at a path does once exec'd: its exit code.  A path that names
\* no file makes execve fail and the child exit(1) (spawn.rs:249-253).
ProgramExit(exe) ==
    IF exe = <<"/bin", "/", "true">> THEN 0
    ELSE IF exe = <<"/bin", "/", "f">> THEN 0
    ELSE 1

(***************************************************************************)
(* File descriptors and the subprocess launcher (jobs::spawn)              *)
(***************************************************************************)
NoFd == 0 - 1

PipeEnd(id, end) == [pipe |-> id, end |-> end]
Tty(fd)          == [pipe |-> 0, end |-> "tty"]

\* ProcessOptions::redirect / ProcessOptions::close
RedirectOp(src, dst) == [fd |-> src, op |-> "Redirect", to |-> dst]
CloseOp(fd)          == [fd |-> fd, op |-> "Close", to |-> NoFd]

\* ProcessOptions::read / write / append
OpenOp(fd, path, mode) == [fd |-> fd, op |-> "Open", to |-> NoFd, path |-> path, mode |-> mode]

\* the lowest descriptor not in use, which pipe() and open() return
LowestFree(open) == CHOOSE n \in 0..(Cardinality(open) + 1) : n \notin open /\ \A m \in 0..n : m = n \/ m \in open

\* the files that exist when the child starts
ExistingFiles == {"in"}

\* a file opened by the child; pipe numbers the open file descriptions of a table
FileIds(tab) == {tab[x].pipe : x \in {y \in DOMAIN tab : tab[y].end = "file"}}

OpenedFile(tab, path, mode) ==
    [pipe |-> CHOOSE n \in 1..(Cardinality(FileIds(tab)) + 1) : n \notin FileIds(tab),
     end |-> "file", path |-> path, mode |-> mode]

\* open(path, mode): Read needs the file, Write and Append create it
open(tab, path, mode) ==
    IF mode = "Read" /\ path \notin ExistingFiles THEN [open |-> tab, ok |-> FALSE, fd |-> NoFd]
    ELSE [open |-> [x \in (DOMAIN tab) \cup {LowestFree(DOMAIN tab)} |->
                       IF x \in DOMAIN tab THEN tab[x] ELSE OpenedFile(tab, path, mode)],
          ok |-> TRUE, fd |-> LowestFree(DOMAIN tab)]

\* dup(oldfd, newfd): dup2
dup(tab, oldfd, newfd) ==
    IF oldfd \notin DOMAIN tab THEN [open |-> tab, ok |-> FALSE]
    ELSE [open |-> [x \in (DOMAIN tab) \cup {newfd} |-> IF x = newfd THEN tab[oldfd] ELSE tab[x]],
          ok |-> TRUE]

\* close(fd)
close(tab, fd) ==
    IF fd \notin DOMAIN tab THEN [open |-> tab, ok |-> FALSE]
    ELSE [open |-> [x \in (DOMAIN tab) \ {fd} |-> tab[x]], ok |-> TRUE]

\* the rest of open_and_dup once open() has returned
OpenAndDupAfter(o, fd) == IF o.ok THEN dup(o.open, o.fd, fd) ELSE [open |-> o.open, ok |-> FALSE]

\* open_and_dup(path, mode, fd)
open_and_dup(tab, path, mode, fd) == OpenAndDupAfter(open(tab, path, mode), fd)

\* one fd operation on a descriptor table; a table is a function fd -> description
ApplyFdOp(tab, o) ==
    IF o.op = "Open" THEN open_and_dup(tab.open, o.path, o.mode, o.fd)
    ELSE IF o.fd \notin DOMAIN tab.open THEN [open |-> tab.open, ok |-> FALSE]
    ELSE IF o.op = "Close"
    THEN [open |-> [x \in (DOMAIN tab.open) \ {o.fd} |-> tab.open[x]], ok |-> TRUE]
    ELSE [open |-> [x \in (DOMAIN tab.open) \cup {o.to} |->
                        IF x = o.to THEN tab.open[o.fd] ELSE tab.open[x]],
          ok |-> TRUE]

\* setup_subprocess: the operations in list order, stopping at the first failure
RECURSIVE setup_subprocess(_, _)
setup_subprocess(tab, ops) ==
    IF ops = <<>> \/ ~tab.ok THEN tab
    ELSE setup_subprocess(ApplyFdOp(tab, Head(ops)), Tail(ops))

\* the fd operations JobManager puts in a plan (exec.rs:178-189)
StdinOps(opts)  == IF opts.stdin # NoFd
                   THEN <<RedirectOp(opts.stdin, 0), CloseOp(opts.stdin)>> ELSE <<>>
StdoutOps(opts) == IF opts.stdout # NoFd
                   THEN <<RedirectOp(opts.stdout, 1), CloseOp(opts.stdout)>> ELSE <<>>
CloseOps(opts)  == [i \in 1..Len(opts.close_fds) |-> CloseOp(opts.close_fds[i])]
PlanFdOps(opts) == StdinOps(opts) \o StdoutOps(opts) \o CloseOps(opts)

(***************************************************************************)
(* JobManager state (lang::exec)                                           *)
(***************************************************************************)
ShellPid == 0

ExitStatus(pid, code) ==
    [pid |-> pid, exit_code |-> code, core_dumped |-> FALSE, signal |-> "None"]

\* the record run() makes up when the tree produced no job id (exec.rs:86-91)
SynthesizedStatus == ExitStatus(ShellPid, 0)

ProcOptions(stdin, stdout, close_fds) ==
    [stdin |-> stdin, stdout |-> stdout, close_fds |-> close_fds]

\* the options run() starts from (exec.rs:72-79)
DefaultOpts == ProcOptions(NoFd, NoFd, <<>>)

EmptyMap == [x \in {} |-> x]

NoPipe == [r |-> NoFd, w |-> NoFd, id |-> 0]

NoRet == [some |-> FALSE, jids |-> <<>>, wvars |-> EmptyMap, wfuncs |-> EmptyMap]

Returned(jids, wv, wf) == [some |-> TRUE, jids |-> jids, wvars |-> wv, wfuncs |-> wf]

\* an activation record.  ec: the context the node mutates; sub: the context its
\* children run in; mark, entry, wvars, wfuncs are history.
Frame(cmd, opts, ec, entry, wv, wf) ==
    [cmd |-> cmd, opts |-> opts, ec |-> ec, sub |-> ec, pc |-> "start", jids |-> <<>>,
     i |-> 1, pipe |-> NoPipe, incomplete |-> {}, mark |-> Len(procs), entry |-> entry,
     wvars |-> wv, wfuncs |-> wf]

Top == stack[Len(stack)]

Busy == stack # <<>>

At(type, pc) == Busy /\ Top.cmd.type = type /\ Top.pc = pc

Popped == SubSeq(stack, 1, Len(stack) - 1)

Replaced(f) == [stack EXCEPT ![Len(stack)] = f]

\* the caller moves to pc and a callee is entered
Entered(caller, callee) == Append(Replaced(caller), callee)

Last(q) == q[Len(q)]

\* later writes win
Merged(new, old) == [k \in (DOMAIN new) \cup (DOMAIN old) |-> IF k \in DOMAIN new THEN new[k] ELSE old[k]]

\* the variables an expansion wrote: those whose value differs afterwards
Written(before, after) ==
    [k \in {x \in DOMAIN after : x \notin DOMAIN before \/ before[x] # after[x]} |-> after[k]]

\* await_all's filter: the listed ids that have no exit record yet (exec.rs:303-307)
Incomplete(jids) == {jids[k] : k \in DOMAIN jids} \ DOMAIN completed_jobs

\* add_job that forgets to record the pid
AddJobRunningForgets(rj, pid, jid) == rj

\* add_job: the id handed out, the running map and the counter afterwards
AddJobRunning(rj, pid, jid) == [p \in (DOMAIN rj) \cup {pid} |-> IF p = pid THEN jid ELSE rj[p]]

\* add_job that hands the same id out again
AddJobNextJidKept(n) == n

AddJobNextJid(n) == n + 1

\* Functions::value and the insert of the function store
FunctionsValue(fn, name) == fn[name]

FunctionsInsert(fn, name, body) ==
    [k \in (DOMAIN fn) \cup {name} |-> IF k = name THEN body ELSE fn[k]]

\* dispatch that looks on PATH before it looks for a function
DispatchPathFirst(fn, vs, argv0) ==
    IF starts_with_dot_slash(argv0) \/ find_executable(vs, argv0).ok THEN "executable"
    ELSE IF argv0 \in DOMAIN fn THEN "function"
    ELSE "missing"

\* how a simple command's argv[0] is dispatched (exec.rs:152-160)
Dispatch(fn, vs, argv0) ==
    IF argv0 \in DOMAIN fn THEN "function"
    ELSE IF starts_with_dot_slash(argv0) \/ find_executable(vs, argv0).ok THEN "executable"
    ELSE "missing"

Executable(vs, argv0) ==
    IF starts_with_dot_slash(argv0) THEN argv0 ELSE find_executable(vs, argv0).path

\* the kernel hands out pids in increasing order, wrapping at MaxPid and skipping
\* the pids of children that are not reaped yet
PidAfter(p) == IF p = MaxPid THEN 1 ELSE p + 1

RECURSIVE NextFreePid(_, _)
NextFreePid(p, tries) ==
    IF tries = 0 THEN 0
    ELSE IF PidAfter(p) \notin DOMAIN children THEN PidAfter(p)
    ELSE NextFreePid(PidAfter(p), tries - 1)

CanFork == NextFreePid(lastpid, MaxPid) # 0

\* unistd::pipe: the two lowest descriptors that are not open
PipeRead == LowestFree(DOMAIN fds)

PipeWrite == LowestFree((DOMAIN fds) \cup {PipeRead})

\* the fds each side of a pipeline must close (exec.rs:197-207)
CloseFrom(opts, stdin) ==
    opts.close_fds \o <<stdin>> \o (IF opts.stdout # NoFd THEN <<opts.stdout>> ELSE <<>>)

ToFrom(opts, stdout) ==
    opts.close_fds \o <<stdout>> \o (IF opts.stdin # NoFd THEN <<opts.stdin>> ELSE <<>>)

FromOpts(opts, stdin, stdout) == ProcOptions(opts.stdin, stdout, CloseFrom(opts, stdin))

ToOpts(opts, stdin, stdout) == ProcOptions(stdin, opts.stdout, ToFrom(opts, stdout))

\* the stdin / stdout a child spawned now stands for, by the pipelines around it:
\* the innermost pipeline it is on the right (left) side of, else the shell's own
PipelinesAt(pc) == {k \in 1..Len(stack) : stack[k].cmd.type = "Pipeline" /\ stack[k].pc = pc}

Innermost(S) == CHOOSE k \in S : \A j \in S : j <= k

ExpectedStdin ==
    IF PipelinesAt("to") = {} THEN fds[0]
    ELSE PipeEnd(stack[Innermost(PipelinesAt("to"))].pipe.id, "r")

ExpectedStdout ==
    IF PipelinesAt("from") = {} THEN fds[1]
    ELSE PipeEnd(stack[Innermost(PipelinesAt("from"))].pipe.id, "w")

(***************************************************************************)
(* Public calls and their returns                                          *)
(***************************************************************************)
NewCall(kind, cmd, jids) ==
    [kind |-> kind, cmd |-> cmd, jids |-> jids, mark |-> Len(procs),
     completed0 |-> DOMAIN completed_jobs, waits0 |-> nwaits,
     done |-> FALSE, ok |-> FALSE, err |-> "", status |-> SynthesizedStatus]

NoCall == [kind |-> "none", cmd |-> Comment, jids |-> <<>>, mark |-> 0,
           completed0 |-> {}, waits0 |-> 0,
           done |-> FALSE, ok |-> FALSE, err |-> "", status |-> SynthesizedStatus]

\* an Err propagated by `?` through every activation up to the public call;
\* cx is the context stack the failing step leaves behind
Fails(err, cx) ==
    /\ stack' = <<>>
    /\ ret' = NoRet
    /\ ctxs' = <<cx[1]>>
    /\ call' = [call EXCEPT !.done = TRUE, !.ok = FALSE, !.err = err]

Succeeds(status) ==
    /\ stack' = <<>>
    /\ ret' = NoRet
    /\ call' = [call EXCEPT !.done = TRUE, !.ok = TRUE, !.status = status]

\* JobManager::run, entry (exec.rs:71-81)
RunCall(c) ==
    /\ ~Busy
    /\ ncalls < MaxCalls
    /\ stack' = <<[Frame([type |-> "Run", command |-> c], DefaultOpts, 1, ctxs[1],
                         EmptyMap, EmptyMap) EXCEPT !.pc = "spawn"],
                  Frame(c, DefaultOpts, 1, ctxs[1], EmptyMap, EmptyMap)>>
    /\ ret' = NoRet
    /\ ncalls' = ncalls + 1
    /\ call' = NewCall("run", c, <<>>)
    /\ UNCHANGED <<next_jid, running_jobs, completed_jobs, ctxs, fds, npipes, children,
                   lastpid, procs, issued, nwaits, condLog, callLog, lastGroup, otherVars>>

\* run: spawn_procs_from_ast returned Ok(jids); await_all(&jids) begins (exec.rs:81-82)
RunSpawned ==
    /\ At("Run", "spawn")
    /\ ret.some
    /\ stack' = Replaced([Top EXCEPT !.pc = "await", !.jids = ret.jids,
                                     !.incomplete = Incomplete(ret.jids)])
    /\ ret' = NoRet
    /\ UNCHANGED <<next_jid, running_jobs, completed_jobs, ctxs, fds, npipes, children,
                   lastpid, ncalls, histVars, otherVars>>

\* what run returns for the job ids it awaited (exec.rs:83-91)
RunResult(jids, cj) == IF jids = <<>> THEN SynthesizedStatus ELSE cj[Last(jids)]

RunReturns ==
    /\ At("Run", "await")
    /\ Top.incomplete = {}
    /\ Succeeds(RunResult(Top.jids, completed_jobs))
    /\ UNCHANGED <<next_jid, running_jobs, completed_jobs, ctxs, fds, npipes, children,
                   lastpid, ncalls, procs, issued, nwaits, condLog, callLog, lastGroup,
                   otherVars>>

\* JobManager::await_all called by the shell (exec.rs:302-307)
AwaitAllCall(jids) ==
    /\ ~Busy
    /\ ncalls < MaxCalls
    /\ stack' = <<[Frame([type |-> "AwaitAll", jids |-> jids], DefaultOpts, 1, ctxs[1],
                         EmptyMap, EmptyMap)
                     EXCEPT !.pc = "await", !.jids = jids, !.incomplete = Incomplete(jids)]>>
    /\ ret' = NoRet
    /\ ncalls' = ncalls + 1
    /\ call' = NewCall("await_all", Comment, jids)
    /\ UNCHANGED <<next_jid, running_jobs, completed_jobs, ctxs, fds, npipes, children,
                   lastpid, procs, issued, nwaits, condLog, callLog, lastGroup, otherVars>>

AwaitAllReturns ==
    /\ At("AwaitAll", "await")
    /\ Top.incomplete = {}
    /\ Succeeds(SynthesizedStatus)
    /\ UNCHANGED <<next_jid, running_jobs, completed_jobs, ctxs, fds, npipes, children,
                   lastpid, ncalls, procs, issued, nwaits, condLog, callLog, lastGroup,
                   otherVars>>

\* JobManager::await called by the shell (exec.rs:287-292): an id with an exit
\* record is answered at once, any other is waited for
AwaitCall(jid) ==
    /\ ~Busy
    /\ ncalls < MaxCalls
    /\ stack' = <<[Frame([type |-> "Await", jid |-> jid], DefaultOpts, 1, ctxs[1],
                         EmptyMap, EmptyMap)
                     EXCEPT !.pc = "await", !.jids = <<jid>>,
                            !.incomplete = {jid} \ DOMAIN completed_jobs]>>
    /\ ret' = NoRet
    /\ ncalls' = ncalls + 1
    /\ call' = NewCall("await", Comment, <<jid>>)
    /\ UNCHANGED <<next_jid, running_jobs, completed_jobs, ctxs, fds, npipes, children,
                   lastpid, procs, issued, nwaits, condLog, callLog, lastGroup, otherVars>>

AwaitReturns ==
    /\ At("Await", "await")
    /\ Top.incomplete = {}
    /\ Succeeds(completed_jobs[Top.cmd.jid])
    /\ UNCHANGED <<next_jid, running_jobs, completed_jobs, ctxs, fds, npipes, children,
                   lastpid, ncalls, procs, issued, nwaits, condLog, callLog, lastGroup,
                   otherVars>>

(***************************************************************************)
(* The reaping loop: one iteration of `next()` plus the insert that        *)
(* follows it in await_all (exec.rs:309-314) and await (exec.rs:292-297)   *)
(***************************************************************************)
Awaiting == Busy /\ Top.pc \in {"await", "await_left", "await_right"} /\ Top.incomplete # {}

\* completed_jobs.insert(completed.0, completed.1)
InsertCompleted(cj, jid, status) ==
    [j \in (DOMAIN cj) \cup {jid} |-> IF j = jid THEN status ELSE cj[j]]

\* the insert of a loop that keeps only the records it was asked to wait for
AwaitInsertWaitedOnly(cj, waited, jid, status) ==
    IF jid \in waited THEN InsertCompleted(cj, jid, status) ELSE cj

\* what the loop does with the record next() returned: it is stored whether or
\* not its id is one of the waited ones
AwaitInsert(cj, waited, jid, status) == InsertCompleted(cj, jid, status)

MarkReaped(pid) ==
    [k \in DOMAIN procs |->
        IF procs[k].pid = pid /\ ~procs[k].reaped THEN [procs[k] EXCEPT !.reaped = TRUE]
        ELSE procs[k]]

AwaitNext ==
    /\ Awaiting
    /\ \E pid \in DOMAIN children :
          /\ children' = [p \in (DOMAIN children) \ {pid} |-> children[p]]
          /\ procs' = MarkReaped(pid)
          /\ nwaits' = nwaits + 1
          /\ IF pid \in DOMAIN running_jobs
             THEN LET jid == running_jobs[pid]
                  IN  /\ completed_jobs' =
                             AwaitInsert(completed_jobs, Top.incomplete, jid,
                                         ExitStatus(pid, children[pid]))
                      /\ stack' = Replaced([Top EXCEPT !.incomplete = @ \ {jid}])
             ELSE UNCHANGED <<completed_jobs, stack>>
    /\ UNCHANGED <<next_jid, running_jobs, ctxs, ret, fds, npipes, lastpid, ncalls,
                   call, issued, condLog, callLog, lastGroup, otherVars>>

\* wait() with no child left: ECHILD, reported as WaitFailed (exec.rs:97)
WaitFails ==
    /\ Awaiting
    /\ children = EmptyMap
    /\ Fails("WaitFailed", ctxs)
    /\ UNCHANGED <<next_jid, running_jobs, completed_jobs, fds, npipes, children, lastpid,
                   ncalls, procs, issued, nwaits, condLog, callLog, lastGroup, otherVars>>

(***************************************************************************)
(* spawn_procs_from_ast: Command::SimpleCommand (exec.rs:146-194)          *)
(***************************************************************************)
Argv0 == compile(Top.cmd.arguments[1], ctxs[Top.ec].vars)

OtherArgs(a0) == CompileArgs(Tail(Top.cmd.arguments), a0.vars)

WithVars(ec, vs) == [ctxs EXCEPT ![ec].vars = vs]

\* the descriptor in a child's slot fd after setup
Closed == [pipe |-> 0 - 1, end |-> "closed"]

ChildFd(tab, fd) == IF fd \in DOMAIN tab THEN tab[fd] ELSE Closed

\* a word holding a $(( )) part whose text expr::eval refuses: compile is Err
Refused(w) == \E i \in DOMAIN w : w[i] = ExprPart(NoExpr)

Expandable(words) == \A i \in DOMAIN words : ~Refused(words[i])

RECURSIVE PartsBefore(_)
\* the parts of a refused word that are rendered before the refused one
PartsBefore(w) ==
    IF Head(w) = ExprPart(NoExpr) THEN <<>> ELSE <<Head(w)>> \o PartsBefore(Tail(w))

RECURSIVE ExpansionFailure(_, _)
\* the store Word::compile leaves behind when it fails in the first refused word
ExpansionFailure(words, vs) ==
    IF Refused(Head(words)) THEN compile(PartsBefore(Head(words)), vs).vars
    ELSE ExpansionFailure(Tail(words), compile(Head(words), vs).vars)

\* argv[0] names a function: its body runs in place with the caller's options
SimpleCallsFunction ==
    /\ At("SimpleCommand", "start")
    /\ ~Refused(Top.cmd.arguments[1])
    /\ \E a0 \in {Argv0} :
          /\ Dispatch(ctxs[Top.ec].funcs, a0.vars, a0.s) = "function"
          /\ LET f      == Top
                 body   == FunctionsValue(ctxs[f.ec].funcs, a0.s)
                 callee == [Frame(body, f.opts, f.ec, f.entry,
                                  Merged(Written(ctxs[f.ec].vars, a0.vars), f.wvars), f.wfuncs)
                              EXCEPT !.mark = f.mark]
             IN  /\ stack' = Replaced(callee)
                 /\ ctxs' = WithVars(f.ec, a0.vars)
                 /\ callLog' = callLog \cup
                        {[name |-> a0.s, stored |-> ctxs[f.ec].funcs[a0.s],
                          ran |-> callee.cmd, callerOpts |-> f.opts, opts |-> callee.opts,
                          onPath |-> find_executable(a0.vars, a0.s).ok,
                          nprocs |-> Len(procs), njids |-> next_jid]}
    /\ ret' = NoRet
    /\ UNCHANGED <<next_jid, running_jobs, completed_jobs, fds, npipes, children, lastpid,
                   ncalls, call, procs, issued, nwaits, condLog, lastGroup, otherVars>>

\* argv[0] names a program: plan, fork, add_job
SimpleSpawns ==
    /\ At("SimpleCommand", "start")
    /\ Expandable(Top.cmd.arguments)
    /\ CanFork
    /\ \E a0 \in {Argv0} :
          /\ Dispatch(ctxs[Top.ec].funcs, a0.vars, a0.s) = "executable"
          /\ \E rest \in {OtherArgs(a0)} :
                LET f    == Top
                    exe  == Executable(a0.vars, a0.s)
                    pid  == NextFreePid(lastpid, MaxPid)
                    tab  == setup_subprocess([open |-> fds, ok |-> TRUE], PlanFdOps(f.opts))
                    code == IF tab.ok THEN ProgramExit(exe) ELSE 1
                    jid  == next_jid
                IN  /\ children' = [p \in (DOMAIN children) \cup {pid} |->
                                       IF p = pid THEN code ELSE children[p]]
                    /\ lastpid' = pid
                    /\ running_jobs' = AddJobRunning(running_jobs, pid, jid)
                    /\ next_jid' = AddJobNextJid(next_jid)
                    /\ issued' = issued \cup {jid}
                    /\ ctxs' = WithVars(f.ec, rest.vars)
                    /\ procs' = Append(procs,
                           [pid |-> pid, jid |-> jid, exe |-> exe,
                            argv |-> <<a0.s>> \o rest.args,
                            open |-> tab.open, fd0 |-> ChildFd(tab.open, 0),
                            fd1 |-> ChildFd(tab.open, 1), setup_ok |-> tab.ok,
                            code |-> code, reaped |-> FALSE,
                            expIn |-> ExpectedStdin, expOut |-> ExpectedStdout,
                            isfunc |-> a0.s \in DOMAIN ctxs[f.ec].funcs, call |-> ncalls,
                            opts |-> f.opts, pfds |-> fds])
                    /\ stack' = Popped
                    /\ ret' = Returned(<<jid>>,
                                       Merged(Written(ctxs[f.ec].vars, rest.vars), f.wvars),
                                       f.wfuncs)
    /\ UNCHANGED <<completed_jobs, fds, npipes, ncalls, call, nwaits, condLog, callLog,
                   lastGroup, otherVars>>

\* neither a function nor found on PATH: MissingExecutable, before any fork
SimpleMissing ==
    /\ At("SimpleCommand", "start")
    /\ ~Refused(Top.cmd.arguments[1])
    /\ \E a0 \in {Argv0} :
          /\ Dispatch(ctxs[Top.ec].funcs, a0.vars, a0.s) = "missing"
          /\ Fails("MissingExecutable", WithVars(Top.ec, a0.vars))
    /\ UNCHANGED <<next_jid, running_jobs, completed_jobs, fds, npipes, children, lastpid,
                   ncalls, procs, issued, nwaits, condLog, callLog, lastGroup, otherVars>>

\* a failed fork that allocates the job id all the same
SimpleForkFailsAllocates ==
    /\ At("SimpleCommand", "start")
    /\ Expandable(Top.cmd.arguments)
    /\ ~CanFork
    /\ \E a0 \in {Argv0} :
          /\ Dispatch(ctxs[Top.ec].funcs, a0.vars, a0.s) = "executable"
          /\ \E rest \in {OtherArgs(a0)} : Fails("ExecFailed", WithVars(Top.ec, rest.vars))
    /\ running_jobs' = AddJobRunning(running_jobs, 0, next_jid)
    /\ next_jid' = AddJobNextJid(next_jid)
    /\ UNCHANGED <<completed_jobs, fds, npipes, children, lastpid,
                   ncalls, procs, issued, nwaits, condLog, callLog, lastGroup, otherVars>>

\* fork fails: ExecFailed, after every argument was compiled
SimpleForkFails ==
    /\ At("SimpleCommand", "start")
    /\ Expandable(Top.cmd.arguments)
    /\ ~CanFork
    /\ \E a0 \in {Argv0} :
          /\ Dispatch(ctxs[Top.ec].funcs, a0.vars, a0.s) = "executable"
          /\ \E rest \in {OtherArgs(a0)} : Fails("ExecFailed", WithVars(Top.ec, rest.vars))
    /\ UNCHANGED <<next_jid, running_jobs, completed_jobs, fds, npipes, children, lastpid,
                   ncalls, procs, issued, nwaits, condLog, callLog, lastGroup, otherVars>>

\* compiling argv[0], or a later argument of a command that is not a function
\* call and is found on PATH, fails: ExecFailed, before any fork
SimpleExpansionFails ==
    /\ At("SimpleCommand", "start")
    /\ ~Expandable(Top.cmd.arguments)
    /\ \/ Refused(Top.cmd.arguments[1])
       \/ /\ ~Refused(Top.cmd.arguments[1])
          /\ \E a0 \in {Argv0} : Dispatch(ctxs[Top.ec].funcs, a0.vars, a0.s) = "executable"
    /\ Fails("ExecFailed",
             WithVars(Top.ec, ExpansionFailure(Top.cmd.arguments, ctxs[Top.ec].vars)))
    /\ UNCHANGED <<next_jid, running_jobs, completed_jobs, fds, npipes, children, lastpid,
                   ncalls, procs, issued, nwaits, condLog, callLog, lastGroup, otherVars>>

(***************************************************************************)
(* Command::Pipeline (exec.rs:195-230)                                     *)
(***************************************************************************)
\* the parent's descriptor table after pipe() / after close(fd)
Opened(tab, r, w, id) ==
    [x \in (DOMAIN tab) \cup {r, w} |->
        IF x = r THEN PipeEnd(id, "r") ELSE IF x = w THEN PipeEnd(id, "w") ELSE tab[x]]

ClosedFds(tab, S) == [x \in (DOMAIN tab) \ S |-> tab[x]]

\* pipe(), the two option sets, and the left side is entered
PipelineOpens ==
    /\ At("Pipeline", "start")
    /\ Cardinality(DOMAIN fds) + 2 <= MaxFds
    /\ LET f      == Top
           r      == PipeRead
           w      == PipeWrite
           id     == npipes + 1
           caller == [f EXCEPT !.pc = "from", !.pipe = [r |-> r, w |-> w, id |-> id]]
       IN  /\ fds' = Opened(fds, r, w, id)
           /\ npipes' = id
           /\ stack' = Entered(caller, Frame(f.cmd.from, FromOpts(f.opts, r, w), f.ec,
                                             ctxs[f.ec], EmptyMap, EmptyMap))
    /\ ret' = NoRet
    /\ UNCHANGED <<next_jid, running_jobs, completed_jobs, ctxs, children, lastpid, ncalls,
                   histVars, otherVars>>

\* pipe() fails: PipelineCreationFailed
PipelineCreationFails ==
    /\ At("Pipeline", "start")
    /\ Cardinality(DOMAIN fds) + 2 > MaxFds
    /\ Fails("PipelineCreationFailed", ctxs)
    /\ UNCHANGED <<next_jid, running_jobs, completed_jobs, fds, npipes, children, lastpid,
                   ncalls, procs, issued, nwaits, condLog, callLog, lastGroup, otherVars>>

\* the left side returned its ids; the right side is entered
PipelineFromReturns ==
    /\ At("Pipeline", "from")
    /\ ret.some
    /\ LET f      == Top
           caller == [f EXCEPT !.pc = "to", !.jids = ret.jids,
                               !.wvars = Merged(ret.wvars, @),
                               !.wfuncs = Merged(ret.wfuncs, @)]
       IN  stack' = Entered(caller, Frame(f.cmd.to, ToOpts(f.opts, f.pipe.r, f.pipe.w),
                                          f.ec, ctxs[f.ec], EmptyMap, EmptyMap))
    /\ ret' = NoRet
    /\ UNCHANGED <<next_jid, running_jobs, completed_jobs, ctxs, fds, npipes, children,
                   lastpid, ncalls, histVars, otherVars>>

\* the ids a pipeline returns: left side's, then right side's (exec.rs:226-229)
PipelineJids(from, to) == from \o to

\* the right side returned; the parent closes both pipe ends
PipelineToReturns ==
    /\ At("Pipeline", "to")
    /\ ret.some
    /\ LET f == Top
       IN  /\ fds' = ClosedFds(fds, {f.pipe.r, f.pipe.w})
           /\ stack' = Popped
           /\ ret' = Returned(PipelineJids(f.jids, ret.jids),
                              Merged(ret.wvars, f.wvars), Merged(ret.wfuncs, f.wfuncs))
    /\ UNCHANGED <<next_jid, running_jobs, completed_jobs, ctxs, npipes, children,
                   lastpid, ncalls, histVars, otherVars>>

(***************************************************************************)
(* Command::BraceGroup and Command::Group (exec.rs:231-245)                *)
(***************************************************************************)
\* a brace-group that runs its commands in the caller's context, as Group does
BraceGroupShares ==
    /\ At("BraceGroup", "start")
    /\ ctxs' = Append(ctxs, ctxs[Top.ec])
    /\ stack' = Replaced([Top EXCEPT !.pc = "next", !.entry = ctxs[Top.ec]])
    /\ ret' = NoRet
    /\ UNCHANGED <<next_jid, running_jobs, completed_jobs, fds, npipes, children, lastpid,
                   ncalls, histVars, otherVars>>

\* let mut subenv = ec.clone()
BraceGroupClones ==
    /\ At("BraceGroup", "start")
    /\ ctxs' = Append(ctxs, ctxs[Top.ec])
    /\ stack' = Replaced([Top EXCEPT !.pc = "next", !.sub = Len(ctxs) + 1,
                                     !.entry = ctxs[Top.ec]])
    /\ ret' = NoRet
    /\ UNCHANGED <<next_jid, running_jobs, completed_jobs, fds, npipes, children, lastpid,
                   ncalls, histVars, otherVars>>

GroupLoopHead == At("Group", "start") \/ At("Group", "next") \/ At("BraceGroup", "next")

InGroup == Busy /\ Top.cmd.type \in {"Group", "BraceGroup"}

\* the loop body starts: the i-th command is entered with the group's own options
GroupRunsNext ==
    /\ GroupLoopHead
    /\ Top.i <= Len(Top.cmd.commands)
    /\ LET f == Top
       IN  stack' = Entered([f EXCEPT !.pc = "child"],
                            Frame(f.cmd.commands[f.i], f.opts, f.sub, ctxs[f.sub],
                                  EmptyMap, EmptyMap))
    /\ ret' = NoRet
    /\ UNCHANGED <<next_jid, running_jobs, completed_jobs, ctxs, fds, npipes, children,
                   lastpid, ncalls, histVars, otherVars>>

\* a loop body that moves on without awaiting the ids of its command
GroupChildReturnsUnawaited ==
    /\ InGroup
    /\ Top.pc = "child"
    /\ ret.some
    /\ stack' = Replaced([Top EXCEPT !.pc = "await", !.incomplete = {},
                                     !.wvars = Merged(ret.wvars, @),
                                     !.wfuncs = Merged(ret.wfuncs, @)])
    /\ ret' = NoRet
    /\ UNCHANGED <<next_jid, running_jobs, completed_jobs, ctxs, fds, npipes, children,
                   lastpid, ncalls, histVars, otherVars>>

\* the i-th command returned its ids; await_all(&jids) begins
GroupChildReturns ==
    /\ InGroup
    /\ Top.pc = "child"
    /\ ret.some
    /\ stack' = Replaced([Top EXCEPT !.pc = "await", !.incomplete = Incomplete(ret.jids),
                                     !.wvars = Merged(ret.wvars, @),
                                     !.wfuncs = Merged(ret.wfuncs, @)])
    /\ ret' = NoRet
    /\ UNCHANGED <<next_jid, running_jobs, completed_jobs, ctxs, fds, npipes, children,
                   lastpid, ncalls, histVars, otherVars>>

\* await_all returned; the loop moves on
GroupAwaited ==
    /\ InGroup
    /\ Top.pc = "await"
    /\ Top.incomplete = {}
    /\ stack' = Replaced([Top EXCEPT !.pc = "next", !.i = @ + 1])
    /\ UNCHANGED <<next_jid, running_jobs, completed_jobs, ctxs, ret, fds, npipes, children,
                   lastpid, ncalls, histVars, otherVars>>

\* what either group hands to its caller
GroupJids == <<>>

\* the loop is over: Ok(Vec::new()); a BraceGroup drops its subenv
GroupReturns ==
    /\ GroupLoopHead
    /\ Top.i > Len(Top.cmd.commands)
    /\ LET f     == Top
           brace == f.cmd.type = "BraceGroup"
       IN  /\ ctxs' = IF brace THEN SubSeq(ctxs, 1, Len(ctxs) - 1) ELSE ctxs
           /\ stack' = Popped
           /\ ret' = Returned(GroupJids, IF brace THEN EmptyMap ELSE f.wvars,
                              IF brace THEN EmptyMap ELSE f.wfuncs)
           /\ lastGroup' = [some |-> TRUE, type |-> f.cmd.type, entry |-> f.entry,
                            after |-> ctxs'[f.ec], inner |-> ctxs[f.sub],
                            wvars |-> f.wvars, wfuncs |-> f.wfuncs,
                            mark |-> f.mark, nprocs |-> Len(procs) - f.mark]
    /\ UNCHANGED <<next_jid, running_jobs, completed_jobs, fds, npipes, children, lastpid,
                   ncalls, call, procs, issued, nwaits, condLog, callLog, otherVars>>

(***************************************************************************)
(* Command::ConditionalPair (exec.rs:246-262)                              *)
(***************************************************************************)
CondRunsLeft ==
    /\ At("ConditionalPair", "start")
    /\ LET f == Top
       IN  stack' = Entered([f EXCEPT !.pc = "left"],
                            Frame(f.cmd.left, f.opts, f.ec, ctxs[f.ec], EmptyMap, EmptyMap))
    /\ ret' = NoRet
    /\ UNCHANGED <<next_jid, running_jobs, completed_jobs, ctxs, fds, npipes, children,
                   lastpid, ncalls, histVars, otherVars>>

CondLeftReturns ==
    /\ At("ConditionalPair", "left")
    /\ ret.some
    /\ stack' = Replaced([Top EXCEPT !.pc = "await_left", !.jids = ret.jids,
                                     !.incomplete = Incomplete(ret.jids),
                                     !.wvars = Merged(ret.wvars, @),
                                     !.wfuncs = Merged(ret.wfuncs, @)])
    /\ ret' = NoRet
    /\ UNCHANGED <<next_jid, running_jobs, completed_jobs, ctxs, fds, npipes, children,
                   lastpid, ncalls, histVars, otherVars>>

\* jobs_left.last().map(|r| completed_jobs[r].exit_code).unwrap_or(0)
LeftExitCode(jids, cj) == IF jids = <<>> THEN 0 ELSE cj[Last(jids)].exit_code

RunsRight(op, exit_code) ==
    (exit_code = 0 /\ op = "AndIf") \/ (exit_code # 0 /\ op = "OrIf")

\* the exit code the left side really finished with: that of the last process
\* launched for it, 0 when it launched none
LeftFinishedWith(f) ==
    IF Len(procs) = f.mark THEN 0 ELSE procs[Len(procs)].code

CondEntry(f, launched) ==
    [operator |-> f.cmd.operator, left |-> f.cmd.left, leftCode |-> LeftFinishedWith(f),
     seen |-> LeftExitCode(f.jids, completed_jobs), launched |-> launched,
     leftProcs |-> Len(procs) - f.mark]

CondRunsRight ==
    /\ At("ConditionalPair", "await_left")
    /\ Top.incomplete = {}
    /\ RunsRight(Top.cmd.operator, LeftExitCode(Top.jids, completed_jobs))
    /\ LET f == Top
       IN  /\ stack' = Entered([f EXCEPT !.pc = "right"],
                               Frame(f.cmd.right, f.opts, f.ec, ctxs[f.ec], EmptyMap, EmptyMap))
           /\ condLog' = condLog \cup {CondEntry(f, TRUE)}
    /\ ret' = NoRet
    /\ UNCHANGED <<next_jid, running_jobs, completed_jobs, ctxs, fds, npipes, children,
                   lastpid, ncalls, call, procs, issued, nwaits, callLog, lastGroup, otherVars>>

\* the right side is skipped: Ok(jobs_left)
CondShortCircuits ==
    /\ At("ConditionalPair", "await_left")
    /\ Top.incomplete = {}
    /\ ~RunsRight(Top.cmd.operator, LeftExitCode(Top.jids, completed_jobs))
    /\ LET f == Top
       IN  /\ stack' = Popped
           /\ ret' = Returned(f.jids, f.wvars, f.wfuncs)
           /\ condLog' = condLog \cup {CondEntry(f, FALSE)}
    /\ UNCHANGED <<next_jid, running_jobs, completed_jobs, ctxs, fds, npipes, children,
                   lastpid, ncalls, call, procs, issued, nwaits, callLog, lastGroup, otherVars>>

CondRightReturns ==
    /\ At("ConditionalPair", "right")
    /\ ret.some
    /\ stack' = Replaced([Top EXCEPT !.pc = "await_right", !.jids = ret.jids,
                                     !.incomplete = Incomplete(ret.jids),
                                     !.wvars = Merged(ret.wvars, @),
                                     !.wfuncs = Merged(ret.wfuncs, @)])
    /\ ret' = NoRet
    /\ UNCHANGED <<next_jid, running_jobs, completed_jobs, ctxs, fds, npipes, children,
                   lastpid, ncalls, histVars, otherVars>>

\* Ok(jobs_right)
CondReturns ==
    /\ At("ConditionalPair", "await_right")
    /\ Top.incomplete = {}
    /\ stack' = Popped
    /\ ret' = Returned(Top.jids, Top.wvars, Top.wfuncs)
    /\ UNCHANGED <<next_jid, running_jobs, completed_jobs, ctxs, fds, npipes, children,
                   lastpid, ncalls, histVars, otherVars>>

(***************************************************************************)
(* Command::Function and Command::Comment (exec.rs:263-268)                *)
(***************************************************************************)
FunctionDefines ==
    /\ At("Function", "start")
    /\ \E name \in {compile(Top.cmd.name, ctxs[Top.ec].vars)} :
          LET f  == Top
              fn == FunctionsInsert(ctxs[f.ec].funcs, name.s, f.cmd.body)
          IN  /\ ctxs' = [ctxs EXCEPT ![f.ec] = [vars |-> name.vars, funcs |-> fn]]
              /\ stack' = Popped
              /\ ret' = Returned(<<>>,
                                 Merged(Written(ctxs[f.ec].vars, name.vars), f.wvars),
                                 Merged([k \in {name.s} |-> f.cmd.body], f.wfuncs))
    /\ UNCHANGED <<next_jid, running_jobs, completed_jobs, fds, npipes, children, lastpid,
                   ncalls, histVars, otherVars>>

CommentReturns ==
    /\ At("Comment", "start")
    /\ stack' = Popped
    /\ ret' = Returned(<<>>, Top.wvars, Top.wfuncs)
    /\ UNCHANGED <<next_jid, running_jobs, completed_jobs, ctxs, fds, npipes, children,
                   lastpid, ncalls, histVars, otherVars>>

(***************************************************************************)
(* The shell around the job manager: the trees and ids it is called with   *)
(***************************************************************************)
W(atom) == <<Slice(<<atom>>)>>

Simple(atom) == SimpleCommand(<<W(atom)>>)

CmdTrue == Simple("true")

CmdFalse == Simple("false")

CmdMissing == Simple("nosuch")

CmdF == Simple("f")

\* true $((n++))
CmdInc == SimpleCommand(<<W("true"), <<ExprPart(Suffix(Variable("n"), "Increment"))>>>>)

\* true $n
CmdShowN == SimpleCommand(<<W("true"), <<VarPart("n")>>>>)

\* f() false
\* `true $((1 +))` and `$((1 +))`: an argument that does not expand
CmdRefused == SimpleCommand(<<W("true"), <<ExprPart(NoExpr)>>>>)

CmdRefusedName == SimpleCommand(<<<<ExprPart(NoExpr)>>>>)

DefF == Function(W("f"), CmdFalse)

GroupBody == <<CmdInc, DefF, CmdShowN, CmdF>>

Commands ==
    {CmdTrue, CmdFalse, CmdMissing, CmdF, DefF, Comment, CmdRefused, CmdRefusedName,
     Pipeline(CmdTrue, CmdFalse), Pipeline(CmdTrue, CmdMissing),
     Pipeline(Pipeline(CmdTrue, CmdFalse), CmdTrue),
     Pipeline(CmdTrue, Pipeline(CmdFalse, CmdTrue)),
     Pipeline(Pipeline(CmdTrue, CmdFalse), CmdMissing),
     Pipeline(CmdF, CmdTrue), Pipeline(CmdF, Group(<<DefF, CmdF>>)),
     Pipeline(CmdTrue, Group(<<CmdFalse>>)),
     Group(<<CmdFalse>>), Group(GroupBody), BraceGroup(GroupBody), BraceGroup(<<CmdTrue>>),
     ConditionalPair(CmdTrue, "AndIf", CmdFalse), ConditionalPair(CmdFalse, "AndIf", CmdTrue),
     ConditionalPair(CmdFalse, "OrIf", CmdTrue), ConditionalPair(CmdTrue, "OrIf", CmdFalse),
     ConditionalPair(Pipeline(CmdTrue, CmdFalse), "OrIf", CmdTrue),
     ConditionalPair(CmdF, "AndIf", CmdTrue),
     ConditionalPair(Group(<<CmdFalse>>), "AndIf", CmdTrue),
     ConditionalPair(BraceGroup(<<CmdFalse>>), "OrIf", CmdTrue)}

\* the ids the shell may ask about: every id handed out, and the next one
Jids == 0..next_jid

InitCtx ==
    [vars  |-> [k \in {"PATH", "n"} |-> IF k = "PATH" THEN <<"/bin">> ELSE <<"0">>],
     funcs |-> EmptyMap]

NoGroup == [some |-> FALSE, type |-> "", entry |-> InitCtx, after |-> InitCtx,
            inner |-> InitCtx, wvars |-> EmptyMap, wfuncs |-> EmptyMap, mark |-> 0,
            nprocs |-> 0]

\* JobManager::default and a fresh ExecutionContext
InitJobs ==
    /\ next_jid = 0
    /\ running_jobs = EmptyMap
    /\ completed_jobs = EmptyMap
    /\ ctxs = <<InitCtx>>
    /\ stack = <<>>
    /\ ret = NoRet
    /\ fds = [x \in 0..2 |-> Tty(x)]
    /\ npipes = 0
    /\ children = EmptyMap
    /\ lastpid = 0
    /\ ncalls = 0
    /\ call = NoCall
    /\ procs = <<>>
    /\ issued = {}
    /\ nwaits = 0
    /\ condLog = {}
    /\ callLog = {}
    /\ lastGroup = NoGroup

(***************************************************************************)
(* Spawning a process from a plan (jobs::spawn::ProcessOptions)            *)
(*                                                                         *)
(* An environment is a map from names to values.  The plan's extra pairs   *)
(* are kept in the order ProcessOptions::env was called.                   *)
(***************************************************************************)
EnvKeys == {"HOME", "K"}

EnvValues == {"x", "y"}

\* the environments the shell may have been started with
ParentEnvs == {EmptyMap, [k \in {"HOME"} |-> "x"], [k \in EnvKeys |-> "y"]}

\* setup_subprocess: env::set_var for each pair of the plan, in order
RECURSIVE set_vars(_, _)
set_vars(env, pairs) ==
    IF pairs = <<>> THEN env
    ELSE set_vars(define(env, Head(pairs)[1], Head(pairs)[2]), Tail(pairs))

\* the third argument of nix::unistd::execve in exec_subprocess: &[]
ExecveEnvp == EmptyMap

NoChild == [stage |-> "none"]

SpawnIdle ==
    /\ penv = EmptyMap
    /\ plan = <<>>
    /\ child = NoChild

JidIdle ==
    /\ jstart = 0
    /\ jlog = <<>>
    /\ jpanic = FALSE

\* ProcessOptions::new(exe)
NewPlan(exe) == [executable |-> exe, args |-> <<>>, wd |-> "None", fd |-> <<>>]

NoKid == [stage |-> "none"]

NotWaited == [some |-> FALSE, code |-> 0]

KidIdle ==
    /\ kplan = NewPlan("/bin/true")
    /\ kid = NoKid
    /\ kwait = NotWaited

\* struct Traps([Action; 31])
TableLen == 31

\* Action::Default and Action::Eval(s)
ActDefault == [act |-> "Default"]

Eval_(s) == [act |-> "Eval", s |-> s]

\* Traps::default(): the array of TableLen actions, indexed from 0
DefaultTraps == [i \in 0..(TableLen - 1) |-> ActDefault]

NoTrapCall == [op |-> "none"]

TrapIdle ==
    /\ ttab = DefaultTraps
    /\ tlast = EmptyMap
    /\ tout = NoTrapCall
    /\ tpanic = FALSE
    /\ ntraps = 0

NoOp == [op |-> "none"]

\* Variables::new
StoreIdle ==
    /\ vstore = EmptyMap
    /\ vlast = EmptyMap
    /\ vop = NoOp

NotParsed == [st |-> "None"]

NotCompiled == [st |-> "None"]

WordIdle ==
    /\ wsrc = <<>>
    /\ wparts = NotParsed
    /\ wvars = EmptyMap
    /\ wout = NotCompiled

\* nothing was evaluated
ExprIdle ==
    /\ evars = EmptyMap
    /\ epre = EmptyMap
    /\ eexpr = NoExpr
    /\ eres = NoExpr
    /\ nevals = 0

\* no text was parsed
ParseIdle ==
    /\ psrc = <<>>
    /\ ptree = ParsedNone(Parser(NoToken, <<>>))
    /\ ppre = EmptyMap
    /\ pvars = EmptyMap
    /\ pout = NotEvaluated
    /\ nparses = 0

Init ==
    /\ InitJobs
    /\ ExprIdle
    /\ ParseIdle
    /\ SpawnIdle
    /\ WordIdle
    /\ StoreIdle
    /\ TrapIdle
    /\ KidIdle
    /\ JidIdle

Next ==
    \/ \E c \in Commands : RunCall(c)
    \/ RunSpawned
    \/ RunReturns
    \/ \E j \in Jids : AwaitAllCall(<<j>>)
    \/ \E j \in Jids : AwaitAllCall(<<j, j + 1>>)
    \/ AwaitAllReturns
    \/ \E j \in Jids : AwaitCall(j)
    \/ AwaitReturns
    \/ AwaitNext
    \/ WaitFails
    \/ SimpleCallsFunction
    \/ SimpleSpawns
    \/ SimpleMissing
    \/ SimpleForkFails
    \/ SimpleExpansionFails
    \/ PipelineOpens
    \/ PipelineCreationFails
    \/ PipelineFromReturns
    \/ PipelineToReturns
    \/ BraceGroupClones
    \/ GroupRunsNext
    \/ GroupChildReturns
    \/ GroupAwaited
    \/ GroupReturns
    \/ CondRunsLeft
    \/ CondLeftReturns
    \/ CondRunsRight
    \/ CondShortCircuits
    \/ CondRightReturns
    \/ CondReturns
    \/ FunctionDefines
    \/ CommentReturns

Spec == Init /\ [][Next]_vars

(***************************************************************************)
(* Properties of the job manager, stated for Spec                          *)
(***************************************************************************)
RunDone == call.kind = "run" /\ call.done

\* the children spawned during the public call in progress or last finished
Spawned == (call.mark + 1)..Len(procs)

\* the exit record a child is owed
RecordOf(p) == [pid |-> p.pid, exit_code |-> p.code, core_dumped |-> FALSE, signal |-> "None"]

ReapedAndStored(p) ==
    /\ p.reaped
    /\ p.jid \in DOMAIN completed_jobs
    /\ completed_jobs[p.jid] = RecordOf(p)

StillAwaitable(p) ==
    /\ ~p.reaped
    /\ p.pid \in DOMAIN children
    /\ p.pid \in DOMAIN running_jobs
    /\ running_jobs[p.pid] = p.jid
    /\ p.jid \notin DOMAIN completed_jobs

\* C1: for every conditional pair that was executed, the right side was launched
\* if and only if (AndIf and the left side's exit code is 0) or (OrIf and the left
\* side's exit code is not 0), the left side's exit code being that of the last
\* command it ran.
C1_RightIffLeftDecides ==
    \A d \in condLog :
        d.launched <=> \/ (d.operator = "AndIf" /\ d.leftCode = 0)
                       \/ (d.operator = "OrIf" /\ d.leftCode # 0)

\* C2 as stated: when run has returned, with a record or with an error, every
\* child spawned during the call is reaped and has its exit record stored.
C2_NoChildLeftUnwaited ==
    RunDone => \A k \in Spawned : ReapedAndStored(procs[k])

\* C2 amended: when run has returned a record, every child spawned during the
\* call is reaped and its record stored; when it has returned an error, every
\* such child is either reaped with its record stored, or still running and
\* registered in the running map under its job id, so the caller can await it.
C2_ReapedOrAwaitable ==
    RunDone =>
        \A k \in Spawned :
            IF call.ok THEN ReapedAndStored(procs[k])
            ELSE ReapedAndStored(procs[k]) \/ StillAwaitable(procs[k])

\* run returned an error while a child it spawned is still running
C2_Witness ==
    /\ RunDone
    /\ ~call.ok
    /\ \E k \in Spawned : StillAwaitable(procs[k])

IsGroup(c) == c.type \in {"Group", "BraceGroup"}

\* C3: run on a Group or BraceGroup with at least one command returns the exit
\* record (pid and exit code) of the last command the group ran; the made-up
\* code-0 record is returned only when the tree produced no child at all.
C3_GroupReturnsLastRecord ==
    (RunDone /\ call.ok /\ IsGroup(call.cmd) /\ call.cmd.commands # <<>>) =>
        IF Spawned = {} THEN call.status = SynthesizedStatus
        ELSE call.status = RecordOf(procs[Len(procs)])

\* every child's fd 0 and fd 1 after setup are the ones its place in the
\* pipelines around it calls for
PipelineWiring ==
    \A k \in DOMAIN procs :
        /\ procs[k].setup_ok
        /\ procs[k].fd0 = procs[k].expIn
        /\ procs[k].fd1 = procs[k].expOut

\* C4: in every pipeline a | b, nested ones included, a's fd 1 is the write end
\* and b's fd 0 the read end of that pipeline's pipe, a's stdin and b's stdout
\* are the ones handed down (or inherited), and run returns the exit record of
\* the rightmost command.
C4_PipelineWiredAndRightmost ==
    /\ PipelineWiring
    /\ (RunDone /\ call.ok /\ call.cmd.type = "Pipeline") =>
            call.status = RecordOf(procs[Len(procs)])

\* the writes of a group's commands are in a context
HoldsWrites(ctx, g) ==
    /\ \A k \in DOMAIN g.wvars : k \in DOMAIN ctx.vars /\ ctx.vars[k] = g.wvars[k]
    /\ \A k \in DOMAIN g.wfuncs : k \in DOMAIN ctx.funcs /\ ctx.funcs[k] = g.wfuncs[k]

\* the children the group ran after its first were started with the stores the
\* earlier commands left: `true $n` shows the n written by `true $((n++))`, and
\* `f` runs the body defined inside the group
LaterCommandsSaw(g) ==
    g.nprocs = 3 =>
        /\ procs[g.mark + 2].argv = <<<<"true">>, g.inner.vars["n"]>>
        /\ procs[g.mark + 2].argv # <<<<"true">>, g.entry.vars["n"]>>
        /\ procs[g.mark + 3].argv = <<<<"false">>>>

\* C5: a BraceGroup leaves the caller's variable store and function store
\* exactly as they were before it, although the writes and definitions of its
\* commands were visible to its later commands; a Group leaves the writes and
\* definitions of its commands in the caller's stores.
C5_BraceGroupIsolated ==
    lastGroup.some =>
        /\ HoldsWrites(lastGroup.inner, lastGroup)
        /\ LaterCommandsSaw(lastGroup)
        /\ lastGroup.type = "BraceGroup" => lastGroup.after = lastGroup.entry
        /\ lastGroup.type = "Group" => HoldsWrites(lastGroup.after, lastGroup)

\* a brace-group that wrote a variable and defined a function has returned
C5_Witness ==
    /\ lastGroup.some
    /\ lastGroup.type = "BraceGroup"
    /\ "n" \in DOMAIN lastGroup.wvars
    /\ lastGroup.wfuncs # EmptyMap
    /\ lastGroup.inner # lastGroup.entry
    /\ lastGroup.nprocs = 3

\* JobManager::stat (exec.rs:273-284)
stat(jid) ==
    IF jid \in DOMAIN completed_jobs
    THEN [t |-> "Complete", status |-> completed_jobs[jid]]
    ELSE IF \E pid \in DOMAIN running_jobs : running_jobs[pid] = jid
    THEN [t |-> "Running", status |-> SynthesizedStatus]
    ELSE [t |-> "InvalidJobId", status |-> SynthesizedStatus]

\* the ids stat is asked about: every id handed out and two that were not
AskedJids == 0..(next_jid + 1)

ChildOf(jid) == {k \in DOMAIN procs : procs[k].jid = jid}

StatNow ==
    \A j \in AskedJids :
        /\ stat(j).t = "InvalidJobId" <=> j \notin issued
        /\ stat(j).t = "Running" <=> (j \in issued /\ \A k \in ChildOf(j) : ~procs[k].reaped)
        /\ stat(j).t = "Complete" =>
              \E k \in ChildOf(j) : procs[k].reaped /\ stat(j).status = RecordOf(procs[k])

StatStays ==
    \A j \in AskedJids : stat(j).t = "Complete" => stat(j)' = stat(j)

\* C6: stat answers InvalidJobId exactly for the ids never issued, Running for an
\* issued id until its child is reaped, and once it answered Complete(r) it
\* answers Complete(r) after every later step of the manager.
C6_StatStateMachine == [][StatNow /\ StatNow' /\ StatStays]_vars

\* one job is complete, one still running, and one id was never issued
C6_Witness ==
    /\ \E j \in AskedJids : stat(j).t = "Complete"
    /\ \E j \in AskedJids : stat(j).t = "Running"
    /\ \E j \in AskedJids : stat(j).t = "InvalidJobId"
    /\ ncalls = 2

AwaitDone == call.kind \in {"await", "await_all"} /\ call.done /\ call.ok

Listed == {call.jids[k] : k \in DOMAIN call.jids}

\* C7: when await_all(jids) or await(jid) has returned Ok, every listed job has
\* its record in the completed map; every child reaped has its record stored,
\* listed or not; and a call whose jobs were all complete already returned
\* without calling wait().
C7_AwaitStoresEveryone ==
    /\ \A k \in DOMAIN procs : procs[k].reaped => ReapedAndStored(procs[k])
    /\ AwaitDone =>
          /\ Listed \subseteq DOMAIN completed_jobs
          /\ Listed \subseteq call.completed0 => nwaits = call.waits0

\* an await returned after it reaped a child it was not asked for first
C7_Witness ==
    /\ AwaitDone
    /\ nwaits >= call.waits0 + 2
    /\ \E k \in DOMAIN procs :
          procs[k].reaped /\ procs[k].jid \notin Listed /\ procs[k].jid \notin call.completed0

\* C8: running a Function definition spawns no child, returns code 0 and stores
\* the body under the name; a simple command whose argv[0] names a stored
\* function runs that body with the caller's options and is never exec'd from
\* PATH, while a command whose argv[0] names no function is exec'd from PATH.
C8_FunctionsShadowPath ==
    /\ (RunDone /\ call.ok /\ call.cmd.type = "Function") =>
          /\ Spawned = {}
          /\ call.status.exit_code = 0
          /\ <<"f">> \in DOMAIN ctxs[1].funcs
          /\ ctxs[1].funcs[<<"f">>] = call.cmd.body
    /\ \A c \in callLog : c.ran = c.stored /\ c.opts = c.callerOpts
    /\ \A k \in DOMAIN procs :
          /\ ~procs[k].isfunc
          /\ procs[k].exe = <<"/bin", "/">> \o procs[k].argv[1]
          /\ procs[k].fd0 = procs[k].expIn
          /\ procs[k].fd1 = procs[k].expOut

\* f | ( f() false; f ): the first f was exec'd from /bin, the second ran the
\* body just defined, whose child got the pipe as its stdin
C8_Witness ==
    /\ \E c \in callLog : c.name = <<"f">> /\ c.onPath /\ c.opts.stdin # NoFd
    /\ \E k \in DOMAIN procs : procs[k].argv[1] = <<"false">> /\ procs[k].fd0.end = "r"
    /\ \E k \in DOMAIN procs :
          procs[k].argv[1] = <<"f">> /\ procs[k].exe = <<"/bin", "/", "f">>

(***************************************************************************)
(* Harness of the evaluator: stores and expressions it is run on           *)
(***************************************************************************)
VarNames == {"a", "b"}

StoredValues == {<<"0">>, <<"1">>, <<"-", "1">>, <<"9">>, <<>>, <<"x">>}

InitStores ==
    {[k \in {"a"} |-> v] : v \in StoredValues} \cup {[k \in {} |-> <<>>]}
        \cup {[k \in {"a", "b"} |-> IF k = "a" THEN <<"0">> ELSE <<"5">>]}

Atoms == {Number(0), Number(1), Variable("a"), Variable("b")}

StepOps == {"Increment", "Decrement"}

\* operands that write the store when evaluated
Effects ==
    {Prefix(op, Variable("a")) : op \in StepOps}
        \cup {Suffix(Variable("a"), op) : op \in StepOps}
        \cup {Infix(Variable("a"), "Assign", Number(2)),
              Infix(Variable("b"), "AssignAdd", Number(1))}

Exprs ==
    Atoms \cup Effects
        \cup {Prefix(op, x) : op \in {"Not", "Negate", "Add", "Subtract"},
                              x \in {Number(0), Number(1), Variable("a")}}
        \cup {Prefix(op, Variable("b")) : op \in StepOps}
        \cup {Infix(l, op, r) : l \in {Number(1), Variable("a")},
                                op \in {"Add", "Multiply", "LessThan", "Equal"},
                                r \in {Number(1), Variable("b")}}
        \cup {Infix(l, op, r) : l \in {Number(0), Number(1), Variable("a"),
                                       Suffix(Variable("a"), "Increment")},
                                op \in {"And", "Or"},
                                r \in Effects \cup {Number(1), Variable("b")}}
        \cup {Condition(c, Suffix(Variable("a"), "Increment"), Prefix("Decrement", Variable("b")))
                : c \in {Number(0), Number(1), Variable("a")}}
        \cup {Suffix(Infix(Variable("b"), "AssignAdd", Number(1)), "Increment"),
              Infix(Suffix(Variable("a"), "Increment"), "Assign", Number(3))}

InitExpr ==
    /\ InitJobs
    /\ evars \in InitStores
    /\ epre = evars
    /\ eexpr = NoExpr
    /\ eres = NoExpr
    /\ nevals = 0
    /\ ParseIdle
    /\ SpawnIdle
    /\ WordIdle
    /\ StoreIdle
    /\ TrapIdle
    /\ KidIdle
    /\ JidIdle

\* expr::eval without the parse: evaluate one tree against the store
Eval(e) ==
    /\ nevals < MaxEvals
    /\ LET r == evaluate(e, evars)
       IN  /\ evars' = r.vars
           /\ eres' = r.e
    /\ epre' = evars
    /\ eexpr' = e
    /\ nevals' = nevals + 1
    /\ UNCHANGED notExpr

NextExpr == \E e \in Exprs : Eval(e)

SpecExpr == InitExpr /\ [][NextExpr]_vars

(***************************************************************************)
(* Properties of the evaluator, stated for SpecExpr                        *)
(***************************************************************************)
IsLogical(e) == e.t = "Infix" /\ e.operator \in {"And", "Or"}

\* the left operand alone settles the result
Decides(l, op) ==
    /\ l.e.t = "Number"
    /\ (op = "And" /\ l.e.n = 0) \/ (op = "Or" /\ l.e.n # 0)

\* C9: evaluating l && r with l reducing to zero, or l || r with l reducing to
\* non-zero, evaluates r zero times: the store afterwards is the one the
\* evaluation of l alone leaves, and the result is 0 respectively 1.
C9_ShortCircuit ==
    IsLogical(eexpr) =>
        LET l == evaluate(eexpr.left, epre)
        IN  Decides(l, eexpr.operator) =>
                /\ evars = l.vars
                /\ eres = Number(IF eexpr.operator = "And" THEN 0 ELSE 1)

IsPrefixStep(e) == e.t = "Prefix" /\ e.operator \in StepOps /\ e.right.t = "Variable"

IsSuffixStep(e) == e.t = "Suffix" /\ e.operator \in StepOps /\ e.left.t = "Variable"

\* C10: for a variable v whose stored value parses to x, ++v and --v store x+1
\* and x-1 and return the new value, v++ and v-- store x+1 and x-1 and return
\* x; no other variable changes.
C10_StepByOne ==
    (IsPrefixStep(eexpr) \/ IsSuffixStep(eexpr)) =>
        LET v      == IF IsPrefixStep(eexpr) THEN eexpr.right.name ELSE eexpr.left.name
            x      == float(value(epre, v))
            stored == IF eexpr.operator = "Increment" THEN x.val + 1 ELSE x.val - 1
        IN  (v \in DOMAIN epre /\ x.ok) =>
                /\ DOMAIN evars = DOMAIN epre
                /\ float(evars[v]) = [ok |-> TRUE, val |-> stored]
                /\ \A k \in (DOMAIN epre) \ {v} : evars[k] = epre[k]
                /\ eres = Number(IF IsPrefixStep(eexpr) THEN stored ELSE x.val)

\* a-- was evaluated with a holding "0"
C10_Witness ==
    /\ eexpr = Suffix(Variable("a"), "Decrement")
    /\ "a" \in DOMAIN epre
    /\ epre["a"] = <<"0">>
    /\ evars["a"] = <<"-", "1">>
    /\ eres = Number(0)

(***************************************************************************)
(* Expression texts: expr::parse and expr::eval called on a text           *)
(***************************************************************************)
Blank == <<" ">>

\* "x o y" and "x o1 y o2 z", written the way the shell's users write them
Binary(x, o, y) == x \o Blank \o o \o Blank \o y

Chain(x, o1, y, o2, z) == Binary(Binary(x, o1, y), o2, z)

Ternary(c, x, y) == c \o <<" ", "?", " ">> \o x \o <<" ", ":", " ">> \o y

Parens(x) == <<"(">> \o x \o <<")">>

\* one or two operators of each level of Precedence::from_operator
LevelOperators ==
    {"Multiply", "Add", "Subtract", "LeftShift", "LessThan", "Equal", "BitAnd",
     "BitExclusiveOr", "BitOr", "And", "Or", "Assign", "AssignAdd"}

\* the operators whose results stay whole numbers on whole operands
WholeOperators ==
    {"Multiply", "Add", "Subtract", "LessThan", "Equal", "And", "Or", "Assign", "AssignAdd"}

A == <<"a">>

Cc == <<"c">>

N == <<"n">>

ChainTexts ==
    {Chain(A, OperatorFmt(o1), Cc, OperatorFmt(o2), N) : o1, o2 \in LevelOperators}

TernaryTexts ==
    {Ternary(A, Cc, Ternary(N, <<"1">>, <<"2">>))}
    \cup {Ternary(Binary(A, OperatorFmt(o), Cc), N, <<"1">>) : o \in LevelOperators}
    \cup {Binary(A, OperatorFmt(o), Ternary(Cc, N, <<"1">>)) : o \in LevelOperators}
    \cup {Ternary(A, Cc, Binary(N, OperatorFmt(o), <<"1">>)) : o \in LevelOperators}

\* a prefix-only operator written between two operands
MisplacedTexts ==
    {Binary(A, <<"!">>, Cc), Binary(A, <<"~">>, Cc),
     Chain(A, <<"+", "+">>, <<"+", "+">>, <<>>, Cc)}

GroupedTexts ==
    {Binary(Parens(Binary(<<"1">>, <<"+">>, <<"2">>)), <<"*">>, <<"3">>),
     Binary(<<"1">>, <<"*">>, Parens(Binary(<<"2">>, <<"+">>, <<"3">>))),
     Binary(<<"a">>, <<"-">>, Parens(Binary(<<"c">>, <<"-">>, <<"n">>))),
     Binary(<<"a">>, <<"=">>, Parens(Binary(<<"c">>, <<"=">>, <<"2">>))),
     <<"+">> \o Parens(<<"+", "a">>), <<"-">> \o Parens(<<"-", "a">>)}

\* ++ / -- and assignments whose target is not a variable
NonVariableTexts ==
    {<<"2", "+", "+">>, <<"2", "-", "-">>, <<"+", "+", "2">>, <<"-", "-", "2">>,
     Parens(Binary(A, <<"+">>, <<"2">>)) \o <<"+", "+">>,
     <<"-", "-">> \o Parens(Binary(A, <<"*">>, <<"2">>)),
     Binary(<<"2">>, <<"=">>, <<"3">>), Binary(<<"2">>, <<"+", "=">>, Cc),
     Binary(Parens(Binary(A, <<"+">>, <<"2">>)), <<"=">>, <<"3">>),
     Binary(Parens(Binary(A, <<"+">>, <<"2">>)), <<"+", "=">>, Cc),
     Binary(<<"-", "a">>, <<"=">>, <<"3">>),
     <<"a", "+", "+">>, <<"+", "+", "a">>, Binary(A, <<"=">>, <<"3">>)}

\* texts the parser refuses
RefusedTexts ==
    {<<"*", "a">>, <<"1", " ", "+">>, <<"(", "1">>, <<"a", " ", "?", " ", "c">>,
     <<"1", " ", "a">>, <<",">>, <<"#">>, <<" ">>, <<"a", "(", "1", ")">>}

ParseTexts == ChainTexts \cup TernaryTexts \cup MisplacedTexts \cup RefusedTexts

EvalTexts ==
    {Chain(A, OperatorFmt(o1), Cc, OperatorFmt(o2), N) : o1, o2 \in WholeOperators}
    \cup {Ternary(A, Cc, Ternary(N, <<"1">>, <<"2">>))}
    \cup MisplacedTexts \cup GroupedTexts \cup NonVariableTexts \cup RefusedTexts

\* the stores an evaluation starts from, keyed by the variable's characters
ParseStores ==
    {<<>>, (A :> <<"1">>), (A :> <<"2">>) @@ (Cc :> <<"0">>) @@ (N :> <<"3">>)}

InitParse ==
    /\ InitJobs
    /\ ExprIdle
    /\ psrc = <<>>
    /\ ptree = ParsedNone(Parser(NoToken, <<>>))
    /\ pvars \in ParseStores
    /\ ppre = pvars
    /\ pout = NotEvaluated
    /\ nparses = 0
    /\ SpawnIdle
    /\ WordIdle
    /\ StoreIdle
    /\ TrapIdle
    /\ KidIdle
    /\ JidIdle

\* expr::parse(s)
ExprParse(s) ==
    /\ nparses < MaxParses
    /\ nparses' = nparses + 1
    /\ psrc' = s
    /\ ptree' = parse(s)
    /\ ppre' = pvars
    /\ pout' = NotEvaluated
    /\ UNCHANGED <<pvars, notParse>>

\* what evaluate leaves: the rendered number, or the abort of an unreachable!()
Evaluated(r) ==
    IF r.e.t = "Panic" THEN [st |-> "Panic"] ELSE [st |-> "Ok", s |-> to_string(r.e.n)]

\* expr::eval(s, vars): parse(s)?.evaluate(vars).to_string()
ExprEval(s) ==
    /\ nparses < MaxParses
    /\ nparses' = nparses + 1
    /\ psrc' = s
    /\ ppre' = pvars
    /\ \E t \in {parse(s)} :
          /\ ptree' = t
          /\ IF t.st = "Some"
             THEN \E r \in {evaluate(t.e, pvars)} :
                     /\ pout' = Evaluated(r)
                     /\ pvars' = r.vars
             ELSE /\ pout' = [st |-> "Err"]
                  /\ pvars' = pvars
    /\ UNCHANGED notParse

NextParse ==
    \/ \E s \in ParseTexts : ExprParse(s)
    \/ \E s \in EvalTexts : ExprEval(s)

SpecParse == InitParse /\ [][NextParse]_vars

(***************************************************************************)
(* Properties of the parser and of expr::eval, stated for SpecParse        *)
(***************************************************************************)
VA == Variable(A)

VC == Variable(Cc)

VN == Variable(N)

\* the last call was expr::eval and the text was accepted by the parser
Evaluation == pout # NotEvaluated /\ ptree.st = "Some"

\* C11: every tree the expression parser returns, the one for a prefix-only
\* operator written between two operands included, evaluates without reaching
\* an unreachable!() and yields a number.
C11_ParsedTreesEvaluate == Evaluation => pout.st = "Ok"

\* the tree with the first two operands grouped, and the one with the last two
LeftGrouped(o1, o2) == Infix(Infix(VA, o1, VC), o2, VN)

RightGrouped(o1, o2) == Infix(VA, o1, Infix(VC, o2, VN))

ChainOf(o1, o2) == Chain(A, OperatorFmt(o1), Cc, OperatorFmt(o2), N)

\* C13: two operators of the same level group to the right when they are
\* assignments, and to the left otherwise; a ternary in the else branch of a
\* ternary belongs to that branch: a ? c : (n ? 1 : 2).
C13_Associativity ==
    /\ \A o1, o2 \in LevelOperators :
          (psrc = ChainOf(o1, o2) /\ from_operator(o1) = from_operator(o2))
             => ptree.e = IF o1 \in AssignmentOperators THEN RightGrouped(o1, o2)
                          ELSE LeftGrouped(o1, o2)
    /\ psrc = Ternary(A, Cc, Ternary(N, <<"1">>, <<"2">>))
          => ptree.e = Condition(VA, VC, Condition(VN, Number(1), Number(2)))

\* the levels from the tightest to the loosest, as documented
DocumentedOrder ==
    << "Product", "Sum", "BitShift", "Relational", "Equality", "BitAnd",
       "BitExclusiveOr", "BitOr", "LogicalAnd", "LogicalOr", "TernaryConditional",
       "Assignment" >>

Documented(op) ==
    CHOOSE i \in DOMAIN DocumentedOrder : DocumentedOrder[i] = from_operator(op)

\* C14: of two operators of different levels the tighter one, in the order
\* product, sum, shift, relational, equality, bit-and, bit-xor, bit-or,
\* logical-and, logical-or, ternary, assignment, takes the operand between them.
C14_PrecedenceOrder ==
    /\ \A o1, o2 \in LevelOperators :
          (psrc = ChainOf(o1, o2) /\ from_operator(o1) # from_operator(o2))
             => ptree.e = IF Documented(o2) < Documented(o1) THEN RightGrouped(o1, o2)
                          ELSE LeftGrouped(o1, o2)
    /\ \A o \in LevelOperators :
          /\ psrc = Ternary(Binary(A, OperatorFmt(o), Cc), N, <<"1">>)
                => ptree.e = IF o \in AssignmentOperators
                             THEN Infix(VA, o, Condition(VC, VN, Number(1)))
                             ELSE Condition(Infix(VA, o, VC), VN, Number(1))
          /\ psrc = Ternary(A, Cc, Binary(N, OperatorFmt(o), <<"1">>))
                => ptree.e = IF o \in AssignmentOperators
                             THEN Infix(Condition(VA, VC, VN), o, Number(1))
                             ELSE Condition(VA, VC, Infix(VN, o, Number(1)))

\* expr::eval of the text a tree is displayed as, from the store the tree was
\* evaluated in
Redone(back) ==
    IF back.st # "Some" THEN [out |-> [st |-> "Err"], vars |-> ppre]
    ELSE [out |-> Evaluated(evaluate(back.e, ppre)), vars |-> evaluate(back.e, ppre).vars]

\* C15: evaluating the tree of a text, and evaluating the tree parsed from what
\* that tree is displayed as, give the same number and the same final store.
C15_DisplayRoundTrip ==
    (Evaluation /\ pout.st = "Ok")
       => Redone(parse(fmt(ptree.e))) = [out |-> pout, vars |-> pvars]

\* no evaluation of e writes a variable
RECURSIVE SideEffectFree(_)
SideEffectFree(e) ==
    CASE e.t \in {"Number", "Variable"} -> TRUE
      [] e.t = "Prefix"    -> e.operator \in {"Add", "Subtract", "Negate", "Not"}
                                /\ SideEffectFree(e.right)
      [] e.t = "Infix"     -> e.operator \in NumberOps \cup {"And", "Or"}
                                /\ SideEffectFree(e.left) /\ SideEffectFree(e.right)
      [] e.t = "Condition" -> SideEffectFree(e.condition) /\ SideEffectFree(e.on_true)
                                /\ SideEffectFree(e.on_false)
      [] OTHER             -> FALSE

\* the operand a ++, a -- or an assignment would write
Target(e) ==
    CASE e.t = "Prefix" -> e.right
      [] e.t = "Suffix" -> e.left
      [] e.t = "Infix"  -> e.left

Writes(e) ==
    \/ e.t = "Prefix" /\ e.operator \in {"Increment", "Decrement"}
    \/ e.t = "Suffix"
    \/ e.t = "Infix" /\ e.operator \in AssignOps

\* the evaluated text is a ++, -- or assignment on something that is no variable
NonVariableTarget ==
    /\ Evaluation
    /\ Writes(ptree.e)
    /\ Target(ptree.e).t # "Variable"
    /\ SideEffectFree(Target(ptree.e))
    /\ ptree.e.t = "Infix" => SideEffectFree(ptree.e.right)

\* C12: ++, -- or an assignment whose operand is a number or side-effect-free
\* arithmetic evaluates to that operand's own value, writes no variable and
\* does not fail.
C12_NonVariableOperand ==
    NonVariableTarget
       => /\ pout = Evaluated(evaluate(Target(ptree.e), ppre))
          /\ pout.st = "Ok"
          /\ pvars = ppre

C12_Witness ==
    /\ NonVariableTarget
    /\ ptree.e.t = "Infix"
    /\ ptree.e.left.t = "Infix"
    /\ ptree.e.operator = "AssignAdd"
    /\ A \in DOMAIN ppre
    /\ pout.st = "Ok"

(***************************************************************************)
(* The process spawning harness (SpecSpawn)                                *)
(***************************************************************************)
InitSpawn ==
    /\ InitJobs
    /\ ExprIdle
    /\ ParseIdle
    /\ penv \in ParentEnvs
    /\ plan = <<>>
    /\ child = NoChild
    /\ WordIdle
    /\ StoreIdle
    /\ TrapIdle
    /\ KidIdle
    /\ JidIdle

\* ProcessOptions::new
ProcessOptionsNew ==
    /\ plan # <<>>
    /\ plan' = <<>>
    /\ UNCHANGED <<penv, child, notSpawn>>

\* ProcessOptions::env(k, v)
ProcessOptionsEnv(k, v) ==
    /\ Len(plan) < MaxPlanEnv
    /\ plan' = Append(plan, <<k, v>>)
    /\ UNCHANGED <<penv, child, notSpawn>>

\* ProcessOptions::spawn, fork: the child starts with a copy of the parent's
\* environment and of the plan
ProcessOptionsSpawn ==
    /\ child.stage \in {"none", "execd"}
    /\ child' = [stage |-> "forked", inherited |-> penv, env |-> penv, plan |-> plan,
                 received |-> EmptyMap]
    /\ UNCHANGED <<penv, plan, notSpawn>>

\* the child runs setup_subprocess
SetupSubprocess ==
    /\ child.stage = "forked"
    /\ child' = [child EXCEPT !.stage = "setup", !.env = set_vars(child.env, child.plan)]
    /\ UNCHANGED <<penv, plan, notSpawn>>

\* the child runs exec_subprocess: the program starts with the environment
\* execve was handed
ExecSubprocess ==
    /\ child.stage = "setup"
    /\ child' = [child EXCEPT !.stage = "execd", !.received = ExecveEnvp]
    /\ UNCHANGED <<penv, plan, notSpawn>>

NextSpawn ==
    \/ ProcessOptionsNew
    \/ \E k \in EnvKeys, v \in EnvValues : ProcessOptionsEnv(k, v)
    \/ ProcessOptionsSpawn
    \/ SetupSubprocess
    \/ ExecSubprocess

SpecSpawn == InitSpawn /\ [][NextSpawn]_vars

(***************************************************************************)
(* Properties of the spawned program's environment, stated for SpecSpawn   *)
(***************************************************************************)
\* C16: the environment the exec'd program receives is the parent's
\* environment at the fork with the plan's pairs applied in list order; no
\* inherited variable is lost.
C16_ChildEnvironment ==
    child.stage = "execd"
       => /\ child.received = set_vars(child.inherited, child.plan)
          /\ \A k \in DOMAIN child.inherited : k \in DOMAIN child.received

(***************************************************************************)
(* The word harness (SpecWord): Word::parse, then Word::compile            *)
(***************************************************************************)
\* the characters a backslash is written in front of
EscapedChars ==
    {"n", "t", "a", Backslash, DoubleQuote, SingleQuote, " ", "$", "|", Backquote,
     "&", "{", "}", LF, ";"}

WordTexts ==
    {<<Backslash, c>> : c \in EscapedChars}
    \cup {<<DoubleQuote, Backslash, c, DoubleQuote>> : c \in EscapedChars}
    \cup {<<SingleQuote, Backslash, c, SingleQuote>> : c \in EscapedChars}
    \cup {<<"a", Backslash, c, "$", "a">> : c \in EscapedChars}
    \cup {<<"a", "t">>, <<"$", "a">>, <<"$">>, <<DoubleQuote, "a", "$", "a", DoubleQuote>>,
          <<SingleQuote, "$", "a", SingleQuote>>, <<DoubleQuote, "a">>, <<>>}

WordStores == {EmptyMap, (<<"a">> :> <<"1">>)}

InitWord ==
    /\ InitJobs
    /\ ExprIdle
    /\ ParseIdle
    /\ SpawnIdle
    /\ wsrc \in WordTexts
    /\ wvars \in WordStores
    /\ wparts = NotParsed
    /\ wout = NotCompiled
    /\ StoreIdle
    /\ TrapIdle
    /\ KidIdle
    /\ JidIdle

\* Word::parse(wsrc)
WordParsed ==
    /\ wparts = NotParsed
    /\ wparts' = [st |-> "Some", parts |-> WordParse(wsrc)]
    /\ UNCHANGED <<wsrc, wvars, wout, notWord>>

\* Word::compile(&self, vars)
WordCompiled ==
    /\ wparts # NotParsed
    /\ wout = NotCompiled
    /\ \E r \in {compile(wparts.parts, wvars)} :
          /\ wout' = [st |-> "Ok", s |-> r.s]
          /\ wvars' = r.vars
    /\ UNCHANGED <<wsrc, wparts, notWord>>

NextWord == WordParsed \/ WordCompiled

SpecWord == InitWord /\ [][NextWord]_vars

(***************************************************************************)
(* Properties of escapes in words, stated for SpecWord                     *)
(***************************************************************************)
\* the character a backslash escape stands for, as documented
DocumentedEscape(c) ==
    CASE c = "n" -> LF
      [] c = "t" -> TAB
      [] c = Backslash -> Backslash
      [] c \in {DoubleQuote, SingleQuote, " ", "$", "|", Backquote, "&", "{", "}", LF} -> c
      [] OTHER -> ReplacementCharacter

\* C17: Word::compile renders Escape(c) as exactly one character: LF for n,
\* TAB for t, a backslash for a backslash, the character itself for the quotes,
\* blank, $, |, backquote, &, { and } and LF, and U+FFFD otherwise; for every
\* escape the word parser produces, quoted or not.
C17_EscapeRendering ==
    wout # NotCompiled
       => \A c \in EscapedChars :
             (wparts.parts = <<Escape(c)>> \/ wparts.parts = <<Quoted(<<Escape(c)>>)>>)
                => wout.s = <<DocumentedEscape(c)>>

(***************************************************************************)
(* The variable store harness (SpecStore): operations in any order         *)
(***************************************************************************)
StoreNames == {"k", "j"}

StoreValues == {<<>>, <<"x">>, <<"y">>}

\* the closures handed to and_modify
Modifiers ==
    {[v \in StoreValues |-> <<>>],
     [v \in StoreValues |-> IF v = <<"x">> THEN <<"y">> ELSE <<"x">>]}

InitStore ==
    /\ InitJobs
    /\ ExprIdle
    /\ ParseIdle
    /\ SpawnIdle
    /\ WordIdle
    /\ StoreIdle
    /\ TrapIdle
    /\ KidIdle
    /\ JidIdle

\* the call, the store it found and what it returned
Called(op, k, v, r) == [op |-> op, k |-> k, v |-> v, before |-> vstore, ret |-> r.ret]

\* Variables::define(k, v)
Define(k, v) ==
    /\ vstore' = define(vstore, k, v)
    /\ vlast' = define(vlast, k, v)
    /\ vop' = [op |-> "define", k |-> k, v |-> v, before |-> vstore, ret |-> <<>>]
    /\ UNCHANGED notStore

\* Variables::entry(k).insert(v)
EntryInsert(k, v) ==
    /\ \E r \in {insert(vstore, k, v)} : vstore' = r.vars /\ vop' = Called("insert", k, v, r)
    /\ vlast' = define(vlast, k, v)
    /\ UNCHANGED notStore

\* Variables::entry(k).or_insert(v): a write when k was absent
EntryOrInsert(k, v) ==
    /\ \E r \in {or_insert(vstore, k, v)} :
          vstore' = r.vars /\ vop' = Called("or_insert", k, v, r)
    /\ vlast' = IF k \in DOMAIN vlast THEN vlast ELSE define(vlast, k, v)
    /\ UNCHANGED notStore

\* Variables::entry(k).or_insert_null(v): a write when k was absent or empty
EntryOrInsertNull(k, v) ==
    /\ \E r \in {or_insert_null(vstore, k, v)} :
          vstore' = r.vars /\ vop' = Called("or_insert_null", k, v, r)
    /\ vlast' = IF k \in DOMAIN vlast /\ vlast[k] # <<>> THEN vlast ELSE define(vlast, k, v)
    /\ UNCHANGED notStore

\* Variables::entry(k).and_modify(f): a write of f's result when k was present
EntryAndModify(k, f) ==
    /\ \E r \in {and_modify(vstore, k, f)} :
          vstore' = r.vars /\ vop' = Called("and_modify", k, <<>>, r)
    /\ vlast' = IF k \in DOMAIN vlast THEN define(vlast, k, f[vlast[k]]) ELSE vlast
    /\ UNCHANGED notStore

\* Variables::entry(k).default(v)
EntryDefault(k, v) ==
    /\ \E r \in {default(vstore, k, v)} :
          vstore' = r.vars /\ vop' = Called("default", k, v, r)
    /\ UNCHANGED <<vlast, notStore>>

\* Variables::entry(k).default_null(v)
EntryDefaultNull(k, v) ==
    /\ \E r \in {default_null(vstore, k, v)} :
          vstore' = r.vars /\ vop' = Called("default_null", k, v, r)
    /\ UNCHANGED <<vlast, notStore>>

NextStore ==
    \/ \E k \in StoreNames, v \in StoreValues : Define(k, v)
    \/ \E k \in StoreNames, v \in StoreValues : EntryInsert(k, v)
    \/ \E k \in StoreNames, v \in StoreValues : EntryOrInsert(k, v)
    \/ \E k \in StoreNames, v \in StoreValues : EntryOrInsertNull(k, v)
    \/ \E k \in StoreNames, f \in Modifiers : EntryAndModify(k, f)
    \/ \E k \in StoreNames, v \in StoreValues : EntryDefault(k, v)
    \/ \E k \in StoreNames, v \in StoreValues : EntryDefaultNull(k, v)

SpecStore == InitStore /\ [][NextStore]_vars

(***************************************************************************)
(* Properties of the variable store, stated for SpecStore                  *)
(***************************************************************************)
\* C18: after any sequence of define, insert, or_insert, or_insert_null and
\* and_modify, value(k) of every existing name k is the value written last
\* for k (or_insert writing only when k was absent, or_insert_null only when k
\* was absent or empty), and the last operation left every other name as it was.
C18_LastWrittenValue ==
    /\ \A k \in StoreNames :
          exists(vstore, k) => k \in DOMAIN vlast /\ value(vstore, k) = vlast[k]
    /\ vop # NoOp
          => \A j \in StoreNames \ {vop.k} :
                /\ exists(vstore, j) <=> exists(vop.before, j)
                /\ value(vstore, j) = value(vop.before, j)

C18_Witness ==
    /\ vop # NoOp
    /\ vop.op = "or_insert_null"
    /\ exists(vop.before, vop.k)
    /\ value(vop.before, vop.k) = <<>>
    /\ value(vstore, vop.k) = <<"x">>
    /\ \E j \in StoreNames \ {vop.k} : value(vstore, j) = <<"y">>

Present == vop.k \in DOMAIN vop.before

\* C19: default returns the stored value when k is present, even if empty, and
\* v when absent; default_null returns v also when the stored value is empty;
\* neither changes the store.  or_insert stores v only when k is absent,
\* or_insert_null when k is absent or empty; both return the value stored
\* afterwards.  An absent name and a name holding the empty value differ in exists.
C19_DefaultingOperations ==
    /\ (vop # NoOp /\ vop.op = "default")
          => /\ vop.ret = IF Present THEN vop.before[vop.k] ELSE vop.v
             /\ vstore = vop.before
    /\ (vop # NoOp /\ vop.op = "default_null")
          => /\ vop.ret = IF Present /\ vop.before[vop.k] # <<>> THEN vop.before[vop.k]
                          ELSE vop.v
             /\ vstore = vop.before
    /\ (vop # NoOp /\ vop.op = "or_insert")
          => /\ vstore = IF Present THEN vop.before ELSE define(vop.before, vop.k, vop.v)
             /\ vop.ret = vstore[vop.k]
    /\ (vop # NoOp /\ vop.op = "or_insert_null")
          => /\ vstore = IF Present /\ vop.before[vop.k] # <<>> THEN vop.before
                         ELSE define(vop.before, vop.k, vop.v)
             /\ vop.ret = vstore[vop.k]
    /\ \A k \in StoreNames : exists(vstore, k) <=> k \in DOMAIN vlast

C19_Witness ==
    /\ vop # NoOp
    /\ vop.op = "default_null"
    /\ Present
    /\ vop.before[vop.k] = <<>>
    /\ vop.v = <<"x">>
    /\ vop.ret = <<"x">>
    /\ exists(vstore, vop.k)
    /\ \E j \in StoreNames : ~exists(vstore, j)

(***************************************************************************)
(* The running map against the completed map, stated for Spec              *)
(***************************************************************************)
SpawnedPids == {procs[k].pid : k \in DOMAIN procs}

\* the child was spawned by the manager and its record is not stored yet
Unrecorded(pid) ==
    \E k \in DOMAIN procs : procs[k].pid = pid /\ procs[k].jid \notin DOMAIN completed_jobs

\* C20: in every reachable state a pid is a key of running_jobs if and only if
\* the child was spawned by the manager and its exit record is not yet in
\* completed_jobs: the step that stores the record removes the pid.
C20_RunningIffUnrecorded ==
    \A pid \in SpawnedPids \cup DOMAIN running_jobs :
        pid \in DOMAIN running_jobs <=> Unrecorded(pid)

(***************************************************************************)
(* The parent's pipe descriptors, stated for Spec                          *)
(***************************************************************************)
\* the descriptors of the shell that are ends of a pipe it created
PipeFds == {fd \in DOMAIN fds : fds[fd].end \in {"r", "w"}}

\* C21: when JobManager::run has returned, with job ids awaited or with an
\* error from either side of a pipeline, the parent holds no end of a pipe it
\* created.
C21_NoPipeLeftOpen == (RunDone /\ ~Busy) => PipeFds = {}

(***************************************************************************)
(* Sequential execution inside groups and conditional pairs, for Spec      *)
(***************************************************************************)
\* the children spawned between the entry of activation k and the entry of the
\* activation above it: those of the commands that ran before the current one
EarlierChildren(k) == (stack[k].mark + 1)..stack[k + 1].mark

\* activation k is a group running one of its commands, or a conditional pair
\* running its right side
RunsSequel(k) ==
    \/ stack[k].cmd.type \in {"Group", "BraceGroup"} /\ stack[k].pc = "child"
    \/ stack[k].cmd.type = "ConditionalPair" /\ stack[k].pc = "right"

\* C22: while command i+1 of a Group or BraceGroup is being executed (its words
\* expanded, its processes spawned), every process of the commands before it
\* has been reaped and has its exit record in completed_jobs; likewise for the
\* left side of a conditional pair while its right side is being executed.
C22_SequentialCommands ==
    \A k \in 1..(Len(stack) - 1) :
        RunsSequel(k) => \A n \in EarlierChildren(k) : ReapedAndStored(procs[n])

\* a simple command is about to be expanded as a later command of a group whose
\* earlier commands spawned children
C22_Witness ==
    /\ At("SimpleCommand", "start")
    /\ Len(stack) >= 2
    /\ \E k \in 1..(Len(stack) - 1) :
          /\ stack[k].cmd.type \in {"Group", "BraceGroup"}
          /\ stack[k].pc = "child"
          /\ stack[k].i >= 3
          /\ Cardinality(EarlierChildren(k)) >= 2

(***************************************************************************)
(* The job id harness (SpecJid): add_job on a manager that has already     *)
(* spawned jstart children.  Here next_jid is kept at its full width, as   *)
(* the two 16-bit halves of the u32; the state is the counter and the      *)
(* running map, the records of the earlier children are left out.          *)
(***************************************************************************)
\* the largest value of one half
HalfMax == 65535

U32(hi, lo) == [hi |-> hi, lo |-> lo]

U32Zero == U32(0, 0)

U32Max == U32(HalfMax, HalfMax)

\* x + 1 on a u32, wrapping
WrappingSucc(x) ==
    IF x.lo < HalfMax THEN U32(x.hi, x.lo + 1)
    ELSE IF x.hi < HalfMax THEN U32(x.hi + 1, 0) ELSE U32Zero

\* x - 1 on a u32 above zero
Pred(x) == IF x.lo > 0 THEN U32(x.hi, x.lo - 1) ELSE U32(x.hi - 1, HalfMax)

\* the order of Jid: #[derive(Ord)] on the u32
JidLess(x, y) == x.hi < y.hi \/ (x.hi = y.hi /\ x.lo < y.lo)

\* self.next_jid += 1 without overflow checks
AddJobNextJidU32(n) == WrappingSucc(n)

RECURSIVE Back(_, _)
\* n - k
Back(n, k) == IF k = 0 THEN n ELSE Back(Pred(n), k - 1)

\* how many children the manager has spawned before
JidStarts == {U32Zero, U32(0, 1), Pred(U32Max), U32Max}

\* running_jobs after n children, the kernel having handed out the pids
\* 1..MaxPid in turn: no key is ever removed and the last MaxPid children hold
\* the entries
RunningAfter(n) ==
    IF n = U32Zero THEN EmptyMap
    ELSE IF n = U32(0, 1) THEN [p \in {1} |-> U32Zero]
    ELSE [p \in 1..MaxPid |-> Back(n, MaxPid - p + 1)]

InitJid ==
    /\ jstart \in JidStarts
    /\ next_jid = jstart
    /\ running_jobs = RunningAfter(jstart)
    /\ jlog = <<>>
    /\ jpanic = FALSE
    /\ completed_jobs = EmptyMap
    /\ ctxs = <<InitCtx>>
    /\ stack = <<>>
    /\ ret = NoRet
    /\ fds = [x \in 0..2 |-> Tty(x)]
    /\ npipes = 0
    /\ children = EmptyMap
    /\ lastpid = 0
    /\ ncalls = 0
    /\ call = NoCall
    /\ procs = <<>>
    /\ issued = {}
    /\ nwaits = 0
    /\ condLog = {}
    /\ callLog = {}
    /\ lastGroup = NoGroup
    /\ ExprIdle
    /\ ParseIdle
    /\ SpawnIdle
    /\ WordIdle
    /\ StoreIdle
    /\ TrapIdle
    /\ KidIdle

\* add_job(pid) where `self.next_jid += 1` wraps around (overflow checks off)
JidAddJob(pid) ==
    /\ ~jpanic
    /\ Len(jlog) < MaxJobs
    /\ running_jobs' = AddJobRunning(running_jobs, pid, next_jid)
    /\ next_jid' = AddJobNextJidU32(next_jid)
    /\ jlog' = Append(jlog, next_jid)
    /\ UNCHANGED <<jstart, jpanic, completed_jobs, ctxs, stack, ret, fds, npipes, children,
                   lastpid, ncalls, histVars, notJid>>

\* add_job(pid) where `self.next_jid += 1` panics (overflow checks on): the
\* running map has the entry, no id is returned
JidAddJobPanics(pid) ==
    /\ ~jpanic
    /\ Len(jlog) < MaxJobs
    /\ next_jid = U32Max
    /\ running_jobs' = AddJobRunning(running_jobs, pid, next_jid)
    /\ jpanic' = TRUE
    /\ UNCHANGED <<jstart, jlog, next_jid, completed_jobs, ctxs, stack, ret, fds, npipes,
                   children, lastpid, ncalls, histVars, notJid>>

NextJid ==
    \/ \E pid \in 1..MaxPid : JidAddJob(pid)
    \/ \E pid \in 1..MaxPid : JidAddJobPanics(pid)

SpecJid == InitJid /\ [][NextJid]_vars

\* C23: every job id add_job hands out differs from every id issued before, the
\* ids below jstart of the earlier children included, and the ids are strictly
\* increasing.
C23_JobIdsNeverRepeat ==
    /\ \A i \in DOMAIN jlog : ~JidLess(jlog[i], jstart)
    /\ \A i \in DOMAIN jlog : \A j \in DOMAIN jlog : i < j => JidLess(jlog[i], jlog[j])

(***************************************************************************)
(* A simple command that fails before a child exists, stated for Spec      *)
(***************************************************************************)
\* the step ends the public call with the error of a simple command
SimpleCommandFailed ==
    /\ ~call.done
    /\ call'.done
    /\ ~call'.ok
    /\ call'.err \in {"MissingExecutable", "ExecFailed"}

\* C24: the step in which a simple command fails before a child exists (its
\* argv does not expand, its program is not on PATH, fork fails) allocates no
\* job id, adds nothing to running_jobs, leaves completed_jobs as it was and
\* creates no child.
C24_FailedCommandLeavesManager ==
    [][SimpleCommandFailed =>
          /\ next_jid' = next_jid
          /\ running_jobs' = running_jobs
          /\ completed_jobs' = completed_jobs
          /\ procs' = procs
          /\ children' = children]_vars

\* a fork failed while every pid was taken by an unreaped child
C24_Witness ==
    /\ call.done
    /\ call.err = "ExecFailed"
    /\ procs # <<>>
    /\ ~CanFork
    /\ DOMAIN running_jobs = DOMAIN children

(***************************************************************************)
(* The child setup harness (SpecKid): a plan is built with the methods of  *)
(* ProcessOptions, spawn forks, and the child runs setup_subprocess and    *)
(* exec_subprocess one step at a time while the parent waits.              *)
(***************************************************************************)
\* an argument holding a NUL byte
NulArg == "a<NUL>b"

PlanArgs == {"x", NulArg}

PlanDirs == {"/", "/gone"}

ExistingDirs == {"/"}

PlanExecutables == {"/bin/true", "/nosuch"}

ExecutableFiles == {"/bin/true"}

\* the fd operations a plan is built from
PlanFdOpSet ==
    {CloseOp(1), CloseOp(3), RedirectOp(0, 1), RedirectOp(3, 1)}
        \cup {OpenOp(fd, "in", "Read") : fd \in {1, 3}}
        \cup {OpenOp(fd, "out", "Read") : fd \in {1, 3}}
        \cup {OpenOp(fd, "out", "Write") : fd \in {1, 3}}

\* the descriptors the child inherits
ShellFds == [x \in 0..2 |-> Tty(x)]

InitKid ==
    /\ InitJobs
    /\ ExprIdle
    /\ ParseIdle
    /\ SpawnIdle
    /\ WordIdle
    /\ StoreIdle
    /\ TrapIdle
    /\ JidIdle
    /\ kplan \in {NewPlan(exe) : exe \in PlanExecutables}
    /\ kid = NoKid
    /\ kwait = NotWaited

\* ProcessOptions::close, redirect, read, write
KidPlanFd(o) ==
    /\ kid = NoKid
    /\ Len(kplan.fd) < MaxFdOps
    /\ kplan' = [kplan EXCEPT !.fd = Append(@, o)]
    /\ UNCHANGED <<kid, kwait, notKid>>

\* ProcessOptions::arg
KidPlanArg(a) ==
    /\ kid = NoKid
    /\ kplan.args = <<>>
    /\ kplan' = [kplan EXCEPT !.args = Append(@, a)]
    /\ UNCHANGED <<kid, kwait, notKid>>

\* ProcessOptions::work_dir
KidPlanWorkDir(d) ==
    /\ kid = NoKid
    /\ kplan.wd = "None"
    /\ kplan' = [kplan EXCEPT !.wd = d]
    /\ UNCHANGED <<kid, kwait, notKid>>

\* ProcessOptions::spawn: fork; the child starts with the shell's descriptors
KidSpawn ==
    /\ kid = NoKid
    /\ kid' = [stage |-> "setup", tab |-> ShellFds, pos |-> 0, log |-> <<>>, ran |-> FALSE,
               code |-> 0]
    /\ UNCHANGED <<kplan, kwait, notKid>>

\* what a step leaves in the log
Step(kind, n, ok, before, after) ==
    [kind |-> kind, n |-> n, ok |-> ok, before |-> before, after |-> after]

\* exit(1) after a failed step
KidExits(entry) == [kid EXCEPT !.stage = "exited", !.code = 1, !.log = Append(@, entry)]

\* a loop that goes on to the next operation after a failed one
KidFdOpCarriesOn ==
    /\ kid.stage = "setup"
    /\ kid.pos < Len(kplan.fd)
    /\ \E r \in {ApplyFdOp([open |-> kid.tab, ok |-> TRUE], kplan.fd[kid.pos + 1])} :
          kid' = [kid EXCEPT !.tab = r.open, !.pos = @ + 1,
                             !.log = Append(@, Step("fd", kid.pos + 1, r.ok, kid.tab, r.open))]
    /\ UNCHANGED <<kplan, kwait, notKid>>

\* setup_subprocess: the next fd operation of the plan
KidFdOp ==
    /\ kid.stage = "setup"
    /\ kid.pos < Len(kplan.fd)
    /\ \E r \in {ApplyFdOp([open |-> kid.tab, ok |-> TRUE], kplan.fd[kid.pos + 1])} :
          kid' = IF r.ok
                 THEN [kid EXCEPT !.tab = r.open, !.pos = @ + 1,
                                  !.log = Append(@, Step("fd", kid.pos + 1, TRUE, kid.tab, r.open))]
                 ELSE KidExits(Step("fd", kid.pos + 1, FALSE, kid.tab, kid.tab))
    /\ UNCHANGED <<kplan, kwait, notKid>>

\* setup_subprocess: chdir when the plan names a directory
KidChdir ==
    /\ kid.stage = "setup"
    /\ kid.pos = Len(kplan.fd)
    /\ kid' = IF kplan.wd = "None" THEN [kid EXCEPT !.stage = "exec"]
              ELSE IF kplan.wd \in ExistingDirs
              THEN [kid EXCEPT !.stage = "exec",
                               !.log = Append(@, Step("chdir", 0, TRUE, kid.tab, kid.tab))]
              ELSE KidExits(Step("chdir", 0, FALSE, kid.tab, kid.tab))
    /\ UNCHANGED <<kplan, kwait, notKid>>

\* exec_subprocess: the arguments become C strings, then execve
KidExec ==
    /\ kid.stage = "exec"
    /\ kid' = IF \E i \in DOMAIN kplan.args : kplan.args[i] = NulArg
              THEN KidExits(Step("args", 0, FALSE, kid.tab, kid.tab))
              ELSE IF kplan.executable \notin ExecutableFiles
              THEN KidExits(Step("exec", 0, FALSE, kid.tab, kid.tab))
              ELSE [kid EXCEPT !.stage = "running", !.ran = TRUE,
                               !.log = Append(@, Step("exec", 0, TRUE, kid.tab, kid.tab))]
    /\ UNCHANGED <<kplan, kwait, notKid>>

\* the program runs to its end
KidProgramExits ==
    /\ kid.stage = "running"
    /\ kid' = [kid EXCEPT !.stage = "exited", !.code = 0]
    /\ UNCHANGED <<kplan, kwait, notKid>>

\* the parent's wait(): WaitStatus::Exited(pid, code)
KidWaited ==
    /\ kid.stage = "exited"
    /\ ~kwait.some
    /\ kwait' = [some |-> TRUE, code |-> kid.code]
    /\ UNCHANGED <<kplan, kid, notKid>>

NextKid ==
    \/ \E o \in PlanFdOpSet : KidPlanFd(o)
    \/ \E a \in PlanArgs : KidPlanArg(a)
    \/ \E d \in PlanDirs : KidPlanWorkDir(d)
    \/ KidSpawn
    \/ KidFdOp
    \/ KidChdir
    \/ KidExec
    \/ KidProgramExits
    \/ KidWaited

SpecKid == InitKid /\ [][NextKid]_vars

(***************************************************************************)
(* Properties of the child's setup, stated for SpecKid                     *)
(***************************************************************************)
Forked == kid # NoKid

\* the descriptors of a table that refer to the open file description d
Referring(tab, d) == {x \in DOMAIN tab : tab[x] = d}

\* the log entries of open-file operations that succeeded
OpenedAt == {i \in DOMAIN kid.log :
                kid.log[i].kind = "fd" /\ kid.log[i].ok /\ kplan.fd[kid.log[i].n].op = "Open"}

\* C25: after an open-file operation (path, mode, target fd) has been applied
\* in the child, the target refers to the newly opened file and is the only
\* descriptor that does: the descriptor open() returned has been closed.
C25_OpenLeavesTargetOnly ==
    Forked =>
        \A i \in OpenedAt :
            LET target == kplan.fd[kid.log[i].n].fd
                after  == kid.log[i].after
            IN  /\ target \in DOMAIN after
                /\ after[target].end = "file"
                /\ after[target].path = kplan.fd[kid.log[i].n].path
                /\ Referring(kid.log[i].before, after[target]) = {}
                /\ Referring(after, after[target]) = {target}

StepRank(kind) == CASE kind = "fd" -> 1 [] kind = "chdir" -> 2 [] kind = "args" -> 3
                    [] kind = "exec" -> 3

Failed == Forked /\ kid.log # <<>> /\ ~Last(kid.log).ok

\* C26: the child applies the plan's fd operations in list order, each on the
\* table the previous one left, then chdir, then the arguments and execve; at
\* the first step that fails no later step is taken, the program is not run and
\* the child exits with code 1, which is the code the parent's wait reports.
C26_FirstFailureExits ==
    Forked =>
        /\ \A i \in DOMAIN kid.log :
              /\ kid.log[i].kind = "fd" => kid.log[i].n = i
              /\ kid.log[i].before = IF i = 1 THEN ShellFds ELSE kid.log[i - 1].after
              /\ i < Len(kid.log) =>
                    /\ kid.log[i].ok
                    /\ StepRank(kid.log[i].kind) <= StepRank(kid.log[i + 1].kind)
                    /\ kid.log[i].kind # "fd" => kid.log[i].kind # kid.log[i + 1].kind
        /\ Failed => kid.stage = "exited" /\ ~kid.ran /\ kid.code = 1
        /\ (Failed /\ kwait.some) => kwait.code = 1
        /\ kid.ran =>
              /\ kid.pos = Len(kplan.fd)
              /\ \A i \in DOMAIN kid.log : kid.log[i].ok
              /\ Last(kid.log).kind = "exec"

\* the second fd operation failed after the first was applied, the plan names
\* a directory, and the parent has seen the exit code
C26_Witness ==
    /\ Forked
    /\ Len(kid.log) = 2
    /\ kid.log[1].ok
    /\ kid.log[1].after # ShellFds
    /\ ~kid.log[2].ok
    /\ kplan.wd # "None"
    /\ kwait.some
    /\ kwait.code = 1

(***************************************************************************)
(* Waiting while a pipe is open in the parent, stated for Spec             *)
(***************************************************************************)
\* the pipelines whose pipe the parent has created and not yet closed
OpenPipelines == PipelinesAt("from") \cup PipelinesAt("to")

\* the job ids of the children spawned since activation k was entered
JidsSince(k) == {procs[n].jid : n \in (stack[k].mark + 1)..Len(procs)}

\* C27: the manager is never about to block in wait() for a child of one side
\* of a pipeline while that pipeline is still being spawned, that is before
\* both sides are spawned and the parent has closed both ends of the pipe.
C27_NoWaitInsideOpenPipeline ==
    Awaiting => \A k \in OpenPipelines : JidsSince(k) \cap Top.incomplete = {}

(***************************************************************************)
(* The options handed to each child, stated for Spec                       *)
(***************************************************************************)
\* the descriptors of a table that are ends of a pipe
PipeEnds(tab) == {x \in DOMAIN tab : tab[x].end \in {"r", "w"}}

OptFd(fd) == IF fd = NoFd THEN {} ELSE {fd}

CloseSet(opts) == {opts.close_fds[i] : i \in DOMAIN opts.close_fds}

\* stdin, stdout and the close list name different descriptors
Disjoint(opts) ==
    /\ OptFd(opts.stdin) \cap OptFd(opts.stdout) = {}
    /\ (OptFd(opts.stdin) \cup OptFd(opts.stdout)) \cap CloseSet(opts) = {}
    /\ Cardinality(CloseSet(opts)) = Len(opts.close_fds)

\* C28: for every child, whatever the nesting of the pipelines around it, its
\* stdin fd, its stdout fd and its close list are pairwise disjoint and together
\* are the pipe descriptors open in the parent at the fork; its fd operations
\* all succeed (nothing is closed twice or redirected after its close) and leave
\* it no pipe descriptor other than fd 0 and fd 1.
C28_ChildHoldsOnlyItsPipes ==
    \A k \in DOMAIN procs :
        /\ Disjoint(procs[k].opts)
        /\ OptFd(procs[k].opts.stdin) \cup OptFd(procs[k].opts.stdout)
              \cup CloseSet(procs[k].opts) = PipeEnds(procs[k].pfds)
        /\ procs[k].setup_ok
        /\ PipeEnds(procs[k].open) \subseteq {0, 1}

(***************************************************************************)
(* Side effects of operands, stated for SpecExpr                           *)
(***************************************************************************)
\* the operands of a node of the tree
Operands(e) ==
    CASE e.t = "Prefix"    -> <<e.right>>
      [] e.t = "Suffix"    -> <<e.left>>
      [] e.t = "Infix"     -> <<e.left, e.right>>
      [] e.t = "Condition" -> <<e.condition, e.on_true, e.on_false>>
      [] OTHER             -> <<>>

\* a node that writes a variable: ++v, --v, v++, v--, v = x, v += x, ...
WritesVariable(e) ==
    \/ e.t = "Prefix" /\ e.operator \in StepOps /\ e.right.t = "Variable"
    \/ e.t = "Suffix" /\ e.operator \in StepOps /\ e.left.t = "Variable"
    \/ e.t = "Infix" /\ e.operator \in AssignOps /\ e.left.t = "Variable"

\* the variable such a node writes and the step it makes (0: not a single step)
StepOf(e) ==
    CASE e.t = "Prefix" -> [name |-> e.right.name,
                            d |-> IF e.operator = "Increment" THEN 1 ELSE -1]
      [] e.t = "Suffix" -> [name |-> e.left.name,
                            d |-> IF e.operator = "Increment" THEN 1 ELSE -1]
      [] e.t = "Infix"  -> [name |-> e.left.name,
                            d |-> IF e.right # Number(1) THEN 0
                                  ELSE IF e.operator = "AssignAdd" THEN 1
                                  ELSE IF e.operator = "AssignSubtract" THEN -1
                                  ELSE 0]

RECURSIVE WritingNodes(_)
\* the writing nodes of a tree, one entry for each occurrence
WritingNodes(e) ==
    LET ops == Operands(e)
        RECURSIVE Below(_)
        Below(i) == IF i > Len(ops) THEN <<>> ELSE WritingNodes(ops[i]) \o Below(i + 1)
    IN  (IF WritesVariable(e) THEN <<e>> ELSE <<>>) \o Below(1)

RECURSIVE Optional(_)
\* some operand of the tree is evaluated only when a condition asks for it
Optional(e) ==
    \/ e.t = "Condition"
    \/ e.t = "Infix" /\ e.operator \in {"And", "Or"}
    \/ \E i \in DOMAIN Operands(e) : Optional(Operands(e)[i])

\* the evaluated tree holds one writing operand, and it steps its variable by one
OneStep ==
    /\ eexpr # NoExpr
    /\ Len(WritingNodes(eexpr)) = 1
    /\ StepOf(WritingNodes(eexpr)[1]).d # 0

\* C29: one evaluation of a tree whose only writing operand steps a variable by
\* one (as the right side of `1 && v++`, the operand of `(v += 1)++`, the left
\* side of `(v++) = 3`) changes that variable by at most that one step, and by
\* exactly that step when no && , || or ?: makes the operand optional.
C29_OperandEffectsOnce ==
    OneStep =>
        \E s \in {StepOf(WritingNodes(eexpr)[1])} :
            \E delta \in {VarNumber(evars, s.name) - VarNumber(epre, s.name)} :
                /\ delta \in {0, s.d}
                /\ ~Optional(eexpr) => delta = s.d

(***************************************************************************)
(* Signal traps (env::traps)                                               *)
(*                                                                         *)
(* A signal is its number, the value of `sig as usize`.  A text handed to  *)
(* parse_signal is a sequence of characters.                               *)
(***************************************************************************)
LowerCase == <<"a", "b", "c", "d", "e", "f", "g", "h", "i", "j", "k", "l", "m",
               "n", "o", "p", "q", "r", "s", "t", "u", "v", "w", "x", "y", "z">>

UpperCase == <<"A", "B", "C", "D", "E", "F", "G", "H", "I", "J", "K", "L", "M",
               "N", "O", "P", "Q", "R", "S", "T", "U", "V", "W", "X", "Y", "Z">>

\* str::to_ascii_uppercase
to_ascii_uppercase(s) ==
    [i \in DOMAIN s |->
        IF \E n \in DOMAIN LowerCase : LowerCase[n] = s[i]
        THEN UpperCase[CHOOSE n \in DOMAIN LowerCase : LowerCase[n] = s[i]]
        ELSE s[i]]

RECURSIVE trim_left(_)
trim_left(s) == IF s # <<>> /\ Head(s) = " " THEN trim_left(Tail(s)) ELSE s

RECURSIVE trim_right(_)
trim_right(s) ==
    IF s # <<>> /\ s[Len(s)] = " " THEN trim_right(SubSeq(s, 1, Len(s) - 1)) ELSE s

\* str::trim
trim(s) == trim_right(trim_left(s))

RECURSIVE trim_left_matches(_, _)
\* str::trim_left_matches(pat): every leading repetition of pat is dropped
trim_left_matches(s, pat) ==
    IF Len(s) >= Len(pat) /\ SubSeq(s, 1, Len(pat)) = pat
    THEN trim_left_matches(SubSeq(s, Len(pat) + 1, Len(s)), pat)
    ELSE s

RECURSIVE Text(_)
\* the characters as one string
Text(s) == IF s = <<>> THEN "" ELSE Head(s) \o Text(Tail(s))

\* the names of the match arms of parse_signal, in the order of their numbers
SignalNames ==
    <<"HUP", "INT", "QUIT", "ILL", "TRAP", "ABRT", "BUS", "FPE", "KILL", "USR1",
      "SEGV", "USR2", "PIPE", "ALRM", "TERM", "STKFLT", "CHLD", "CONT", "STOP",
      "TSTP", "TTIN", "TTOU", "URG", "XCPU", "XFSZ", "VTALRM", "PROF", "WINCH",
      "IO", "PWR", "SYS">>

DigitText == <<"0", "1", "2", "3", "4", "5", "6", "7", "8", "9">>

\* the decimal literal of a match arm
DecimalText(n) ==
    IF n < 10 THEN DigitText[n + 1]
    ELSE DigitText[(n \div 10) + 1] \o DigitText[(n % 10) + 1]

NoSignal == [some |-> FALSE, sig |-> 0]

\* parse_signal
parse_signal(s) ==
    LET key  == Text(trim_left_matches(trim(to_ascii_uppercase(s)), <<"S", "I", "G">>))
        arms == {n \in DOMAIN SignalNames : key = DecimalText(n) \/ key = SignalNames[n]}
    IN  IF arms = {} THEN NoSignal
        ELSE [some |-> TRUE, sig |-> CHOOSE n \in arms : TRUE]

\* self.0[sig as usize]: the index is checked against the array
InBounds(tab, sig) == sig \in DOMAIN tab

\* Traps::set
set(tab, sig, act) ==
    IF InBounds(tab, sig)
    THEN [panic |-> FALSE, tab |-> [tab EXCEPT ![sig] = act]]
    ELSE [panic |-> TRUE, tab |-> tab]

\* Traps::get and Traps::get_by_id
get(tab, sig) ==
    IF InBounds(tab, sig) THEN [panic |-> FALSE, act |-> tab[sig]]
    ELSE [panic |-> TRUE, act |-> ActDefault]

\* signal::sigaction refuses the two signals that cannot be caught
sigaction(sig) == IF sig \in {9, 19} THEN "Err" ELSE "Ok"

(***************************************************************************)
(* The trap harness (SpecTrap)                                             *)
(***************************************************************************)
SignalTexts ==
    {<<"1">>, <<"H", "U", "P">>, <<"S", "I", "G", "I", "N", "T">>,
     <<"s", "i", "g", "t", "e", "r", "m">>, <<" ", "9", " ">>, <<"3", "0">>,
     <<"3", "1">>, <<"S", "I", "G", "S", "I", "G", "S", "Y", "S">>,
     <<"0">>, <<"3", "2">>, <<"F", "O", "O">>, <<>>}

\* the signals parse_signal hands out for these texts
Accepted == {parse_signal(s).sig : s \in {x \in SignalTexts : parse_signal(x).some}}

TrapCommands == {"x", "y"}

InitTrap ==
    /\ InitJobs
    /\ ExprIdle
    /\ ParseIdle
    /\ SpawnIdle
    /\ WordIdle
    /\ StoreIdle
    /\ KidIdle
    /\ JidIdle
    /\ TrapIdle

\* the table, the record of what was set and the outcome after set(sig, act)
SetsTrap(op, sig, act) ==
    /\ \E r \in {set(ttab, sig, act)} :
          /\ ttab' = r.tab
          /\ tpanic' = r.panic
          /\ tout' = [op |-> op, sig |-> sig,
                      ret |-> IF r.panic THEN "panic" ELSE sigaction(sig)]
    /\ tlast' = define(tlast, sig, act)
    /\ ntraps' = ntraps + 1
    /\ UNCHANGED notTrap

\* trap_s(text, s): parse_signal and then trap(sig, s)
TrapS(text, s) ==
    /\ ~tpanic
    /\ ntraps < MaxTrapCalls
    /\ \E p \in {parse_signal(text)} :
          IF p.some
          THEN SetsTrap("trap", p.sig, Eval_(s))
          ELSE /\ tout' = [op |-> "trap", sig |-> 0, ret |-> "UnsupportedOperation"]
               /\ ntraps' = ntraps + 1
               /\ UNCHANGED <<ttab, tlast, tpanic, notTrap>>

\* release(sig)
Release(sig) ==
    /\ ~tpanic
    /\ ntraps < MaxTrapCalls
    /\ SetsTrap("release", sig, ActDefault)

\* Traps::get(sig), and Traps::get_by_id(sig) as the signal handler calls it
Get(op, sig) ==
    /\ ~tpanic
    /\ ntraps < MaxTrapCalls
    /\ \E r \in {get(ttab, sig)} :
          /\ tpanic' = r.panic
          /\ tout' = [op |-> op, sig |-> sig, ret |-> IF r.panic THEN "panic" ELSE r.act]
    /\ ntraps' = ntraps + 1
    /\ UNCHANGED <<ttab, tlast, notTrap>>

NextTrap ==
    \/ \E text \in SignalTexts, s \in TrapCommands : TrapS(text, s)
    \/ \E sig \in Accepted : Release(sig)
    \/ \E sig \in Accepted : Get("get", sig)
    \/ \E sig \in Accepted : Get("get_by_id", sig)

SpecTrap == InitTrap /\ [][NextTrap]_vars

(***************************************************************************)
(* Properties of the trap table, stated for SpecTrap                       *)
(***************************************************************************)
\* the action most recently set for a signal, Default if none was
LastSet(sig) == IF sig \in DOMAIN tlast THEN tlast[sig] ELSE ActDefault

\* C30: for every signal parse_signal accepts, trap, release, set, get and
\* get_by_id index the table within bounds and do not panic; every entry of
\* the table holds the action most recently set for its signal (Default if
\* none was set), and a get returns that action.
C30_TrapsWithinBounds ==
    /\ ~tpanic
    /\ \A i \in DOMAIN ttab : ttab[i] = LastSet(i)
    /\ tout.op \in {"get", "get_by_id"} => tout.ret = LastSet(tout.sig)

====
